---- MODULE Spec2Model ----
(***************************************************************************)
(* Botmother flow agent: the conversation / generation / validation loop   *)
(* (agent.py), the structural validator (validator.py) and the three       *)
(* callers that hold a session around it (run_agent, the HTTP API with its *)
(* database row and message cache, the CLI loop).                          *)
(***************************************************************************)
EXTENDS Integers, Sequences, FiniteSets, TLC

(***************************************************************************)
(* JSON values and texts.                                                  *)
(*                                                                         *)
(* A JSON value is a record [kind, has, nodes, edges].  For an object,     *)
(* nodes and edges describe the two members of that name; for an array or  *)
(* a string, has is the set of the words "nodes"/"edges" that are elements *)
(* (substrings) of it.  A text is what stands between the fences of a      *)
(* ```json block, or a stored flow_json string: ok says whether json.loads *)
(* accepts it, style how it is laid out, val what it parses to.            *)
(***************************************************************************)

NoneV == "None"                 \* Python None / absent member
UnhashableV == "<unhashable>"   \* a list or object where a string is expected

Absent == [tag |-> "absent", items |-> <<>>]
Other == [tag |-> "other", items |-> <<>>]      \* present, not a list
List(items) == [tag |-> "list", items |-> items]

JObject(nodes, edges) == [kind |-> "object", has |-> {}, nodes |-> nodes, edges |-> edges]
JArray(has) == [kind |-> "array", has |-> has, nodes |-> Absent, edges |-> Absent]
JString(has) == [kind |-> "string", has |-> has, nodes |-> Absent, edges |-> Absent]
JNumber == [kind |-> "number", has |-> {}, nodes |-> Absent, edges |-> Absent]
JNull == [kind |-> "null", has |-> {}, nodes |-> Absent, edges |-> Absent]

RawText(val) == [ok |-> TRUE, style |-> "raw", val |-> val]
Malformed == [ok |-> FALSE, style |-> "raw", val |-> JNull]
NoFlow == [ok |-> FALSE, style |-> "None", val |-> JNull]

\* json.loads: the value, or JSONDecodeError
json_loads(text) ==
    IF text.ok THEN [raised |-> "none", val |-> text.val]
    ELSE [raised |-> "JSONDecodeError", val |-> JNull]

\* json.dumps(parsed, indent=2, ensure_ascii=False): the canonical text
json_dumps(val) == [ok |-> TRUE, style |-> "indent2", val |-> val]

\* Python's `key in parsed`: a key of an object, an element of an array, a
\* substring of a string; TypeError for a number, a boolean or null.
InRaises(val) == val.kind \in {"number", "boolean", "null"}
In(key, val) ==
    IF val.kind = "object" THEN val[key].tag # "absent"
    ELSE key \in val.has

Truthy(s) == s # NoneV /\ s # ""

(***************************************************************************)
(* Nodes and edges of a flow document.                                     *)
(***************************************************************************)

DataAbsent == [tag |-> "absent", fields |-> {}]
DataNull == [tag |-> "null", fields |-> {}]
DataObj(fields) == [tag |-> "object", fields |-> fields]

Node(id, type, data, position) ==
    [isobj |-> TRUE, id |-> id, type |-> type, data |-> data, position |-> position]
NotANode == [isobj |-> FALSE, id |-> NoneV, type |-> NoneV, data |-> DataAbsent, position |-> FALSE]

Edge(id, source, target, handle) ==
    [isobj |-> TRUE, id |-> id, source |-> source, target |-> target, sourceHandle |-> handle]

(***************************************************************************)
(* validator.py: the catalogues.                                           *)
(***************************************************************************)

TRIGGER_TYPES ==
    {"CommandTriggerNode", "MessageTriggerNode", "CallbackQueryTriggerNode",
     "CallbackButtonTriggerNode", "ReplyButtonTriggerNode", "CronTriggerNode"}

ALL_NODE_TYPES ==
    TRIGGER_TYPES \cup
    {"SendTextMessageNode", "SendPhotoNode", "SendVideoNode", "SendAudioNode",
     "SendFileNode", "SendAnimationNode", "SendVoiceNode", "SendVideoNoteNode",
     "SendLocationNode", "SendContactNode", "SendPollNode", "SendStickerNode",
     "SendMediaGroupNode", "SendVenueNode", "SendDiceNode",
     "EditMessageNode", "DeleteMessageNode", "ForwardMessageNode",
     "CopyMessageNode", "PinMessageNode", "UnpinMessageNode", "UnpinAllMessagesNode",
     "ChatActionNode", "CallbackQueryAnswerNode", "CheckMembershipNode",
     "IfConditionNode", "RandomNode", "ForLoopNode", "ForLoopContinueNode", "PauseNode",
     "VariableNode", "StateNode", "CollectionNode",
     "LoadCollectionItemNode", "LoadCollectionListNode",
     "UpdateCollectionNode", "DeleteCollectionNode",
     "HTTPRequestNode", "CustomCodeNode", "SendToAdminNode", "DelayNode"}

REQUIRED_FIELDS ==
    "CommandTriggerNode" :> <<"command">> @@
    "SendTextMessageNode" :> <<"messageText">> @@
    "SendPhotoNode" :> <<"photo">> @@
    "SendVideoNode" :> <<"video">> @@
    "SendAudioNode" :> <<"audio">> @@
    "SendFileNode" :> <<"document">> @@
    "SendLocationNode" :> <<"latitude", "longitude">> @@
    "SendContactNode" :> <<"phoneNumber", "firstName">> @@
    "HTTPRequestNode" :> <<"method", "url">> @@
    "CustomCodeNode" :> <<"jsCode">> @@
    "VariableNode" :> <<"variableName", "operation">> @@
    "StateNode" :> <<"key">> @@
    "CollectionNode" :> <<"collection_name">> @@
    "LoadCollectionItemNode" :> <<"collection", "contextKey">> @@
    "LoadCollectionListNode" :> <<"collection", "contextKey">> @@
    "DelayNode" :> <<"delay">> @@
    "CheckMembershipNode" :> <<"channelId">> @@
    "CronTriggerNode" :> <<"schedule">> @@
    "ForLoopNode" :> <<"loopMode">> @@
    "SendToAdminNode" :> <<"adminChatId", "messageText">>

CONDITIONAL_HANDLES ==
    "IfConditionNode" :> {"true", "false", "branch_0", "branch_1", "branch_2", "branch_3"} @@
    "ForLoopNode" :> {"loop-body", "no-items"} @@
    "ForLoopContinueNode" :> {"loop-continue", "loop-done"} @@
    "LoadCollectionItemNode" :> {"found", "not_found"} @@
    "CheckMembershipNode" :> {"is-member", "not-member"} @@
    "RandomNode" :> {"option_0", "option_1", "option_2", "option_3", "option_4",
                     "option_5", "option_6", "option_7", "option_8", "option_9"}

(***************************************************************************)
(* validator.py: validate_flow.  A defect is a record [code, subj, arg];   *)
(* the result is [raised, errors]: raised names the exception that leaves  *)
(* the function, "none" when it returns its list.                          *)
(***************************************************************************)

Err(code, subj, arg) == [code |-> code, subj |-> subj, arg |-> arg]

IndexStr == <<"0", "1", "2", "3", "4", "5">>
Idx(i) == IndexStr[i]          \* the f-string's index of the i-th element (0-based text)

\* node_types: an insertion-ordered dict, as a sequence of <<id, type>>
DictKeys(d) == {d[k][1] : k \in DOMAIN d}
DictGet(d, key) == d[CHOOSE k \in DOMAIN d : d[k][1] = key][2]
\* a dict that keeps the first value stored under a key
DictSet_KeepsFirst(d, key, v) ==
    IF key \in DictKeys(d) THEN d ELSE Append(d, <<key, v>>)

DictSet(d, key, v) ==
    IF key \in DictKeys(d)
    THEN [k \in DOMAIN d |-> IF d[k][1] = key THEN <<key, v>> ELSE d[k]]
    ELSE Append(d, <<key, v>>)

DataDict(data) == data.fields     \* node.get("data", {}): {} when absent
DataIsDict(data) == data.tag \in {"absent", "object"}
FieldMissing(data, field) ==
    \/ ~ \E p \in DataDict(data) : p[1] = field
    \/ \E p \in DataDict(data) : p[1] = field /\ p[2] \in {"null", "empty"}

RECURSIVE RequiredFieldErrors(_, _, _, _)
RequiredFieldErrors(nid, ntype, data, k) ==
    IF k > Len(REQUIRED_FIELDS[ntype]) THEN <<>>
    ELSE (IF FieldMissing(data, REQUIRED_FIELDS[ntype][k])
          THEN <<Err("missing required field", nid, REQUIRED_FIELDS[ntype][k])>>
          ELSE <<>>)
         \o RequiredFieldErrors(nid, ntype, data, k + 1)

\* the iteration with the id registered, and tested for a duplicate, before
\* the test `if not ntype`
NodeStep_IdBeforeType(node, i, acc) ==
    IF ~node.isobj THEN [acc EXCEPT !.raised = "AttributeError"]
    ELSE IF ~Truthy(node.id)
    THEN [acc EXCEPT !.errors = Append(@, Err("node has no id", Idx(i), ""))]
    ELSE IF node.id = UnhashableV THEN [acc EXCEPT !.raised = "TypeError"]
    ELSE IF ~Truthy(node.type)
    THEN [acc EXCEPT
            !.errors = @
               \o (IF node.id \in acc.node_ids
                   THEN <<Err("duplicate node id", node.id, "")>> ELSE <<>>)
               \o <<Err("node has no type", node.id, "")>>,
            !.node_ids = @ \cup {node.id}]
    ELSE IF node.type = UnhashableV
    THEN [acc EXCEPT !.raised = "TypeError"]
    ELSE
      [acc EXCEPT
         !.errors = @
            \o (IF node.id \in acc.node_ids
                THEN <<Err("duplicate node id", node.id, "")>> ELSE <<>>)
            \o (IF node.type \notin ALL_NODE_TYPES
                THEN <<Err("unknown type", node.id, node.type)>> ELSE <<>>)
            \o (IF node.type \in DOMAIN REQUIRED_FIELDS /\ DataIsDict(node.data)
                THEN RequiredFieldErrors(node.id, node.type, node.data, 1) ELSE <<>>)
            \o (IF ~node.position
                THEN <<Err("missing position", node.id, "")>> ELSE <<>>),
         !.node_ids = @ \cup {node.id},
         !.node_types = DictSet(@, node.id, node.type),
         !.has_trigger = @ \/ node.type \in TRIGGER_TYPES]

\* the iteration with the trigger test made before the tests `if not nid`
\* and `if not ntype`
NodeStep_TriggerBeforeSkip(node, i, acc) ==
    IF ~node.isobj THEN [acc EXCEPT !.raised = "AttributeError"]
    ELSE IF node.type = UnhashableV THEN [acc EXCEPT !.raised = "TypeError"]
    ELSE IF ~Truthy(node.id)
    THEN [acc EXCEPT !.errors = Append(@, Err("node has no id", Idx(i), "")),
                     !.has_trigger = @ \/ node.type \in TRIGGER_TYPES]
    ELSE IF ~Truthy(node.type)
    THEN [acc EXCEPT !.errors = Append(@, Err("node has no type", node.id, ""))]
    ELSE IF node.id = UnhashableV
    THEN [acc EXCEPT !.raised = "TypeError"]
    ELSE
      [acc EXCEPT
         !.errors = @
            \o (IF node.id \in acc.node_ids
                THEN <<Err("duplicate node id", node.id, "")>> ELSE <<>>)
            \o (IF node.type \notin ALL_NODE_TYPES
                THEN <<Err("unknown type", node.id, node.type)>> ELSE <<>>)
            \o (IF node.type \in DOMAIN REQUIRED_FIELDS /\ DataIsDict(node.data)
                THEN RequiredFieldErrors(node.id, node.type, node.data, 1) ELSE <<>>)
            \o (IF ~node.position
                THEN <<Err("missing position", node.id, "")>> ELSE <<>>),
         !.node_ids = @ \cup {node.id},
         !.node_types = DictSet(@, node.id, node.type),
         !.has_trigger = @ \/ node.type \in TRIGGER_TYPES]

\* one iteration of `for i, node in enumerate(nodes)`
NodeStep(node, i, acc) ==
    IF ~node.isobj THEN [acc EXCEPT !.raised = "AttributeError"]
    ELSE IF ~Truthy(node.id)
    THEN [acc EXCEPT !.errors = Append(@, Err("node has no id", Idx(i), ""))]
    ELSE IF ~Truthy(node.type)
    THEN [acc EXCEPT !.errors = Append(@, Err("node has no type", node.id, ""))]
    ELSE IF node.id = UnhashableV \/ node.type = UnhashableV
    THEN [acc EXCEPT !.raised = "TypeError"]
    ELSE
      [acc EXCEPT
         !.errors = @
            \o (IF node.id \in acc.node_ids
                THEN <<Err("duplicate node id", node.id, "")>> ELSE <<>>)
            \o (IF node.type \notin ALL_NODE_TYPES
                THEN <<Err("unknown type", node.id, node.type)>> ELSE <<>>)
            \o (IF node.type \in DOMAIN REQUIRED_FIELDS /\ DataIsDict(node.data)
                THEN RequiredFieldErrors(node.id, node.type, node.data, 1) ELSE <<>>)
            \o (IF ~node.position
                THEN <<Err("missing position", node.id, "")>> ELSE <<>>),
         !.node_ids = @ \cup {node.id},
         !.node_types = DictSet(@, node.id, node.type),
         !.has_trigger = @ \/ node.type \in TRIGGER_TYPES]

RECURSIVE NodeLoop(_, _, _)
NodeLoop(nodes, i, acc) ==
    IF i > Len(nodes) \/ acc.raised # "none" THEN acc
    ELSE NodeLoop(nodes, i + 1, NodeStep(nodes[i], i, acc))

EdgeLabel(edge, i) == IF Truthy(edge.id) THEN edge.id ELSE Idx(i)    \* eid or i

\* the iteration that leaves the edge after a source that does not exist
EdgeStep_StopsAtDanglingSource(edge, i, acc) ==
    IF ~edge.isobj THEN [acc EXCEPT !.raised = "AttributeError"]
    ELSE IF ~Truthy(edge.source) \/ ~Truthy(edge.target)
    THEN [acc EXCEPT !.errors = Append(@, Err("edge missing source or target", Idx(i), ""))]
    ELSE IF UnhashableV \in {edge.id, edge.source, edge.target}
    THEN [acc EXCEPT !.raised = "TypeError"]
    ELSE IF edge.source \notin acc.node_ids
    THEN [acc EXCEPT
            !.errors = @
               \o (IF Truthy(edge.id) /\ edge.id \in acc.edge_ids
                   THEN <<Err("duplicate edge id", edge.id, "")>> ELSE <<>>)
               \o <<Err("source does not exist", EdgeLabel(edge, i), edge.source)>>,
            !.edge_ids = IF Truthy(edge.id) THEN @ \cup {edge.id} ELSE @]
    ELSE IF /\ edge.sourceHandle = UnhashableV
            /\ DictGet(acc.node_types, edge.source) \in DOMAIN CONDITIONAL_HANDLES
    THEN [acc EXCEPT !.raised = "TypeError"]
    ELSE
      [acc EXCEPT
         !.errors = @
            \o (IF Truthy(edge.id) /\ edge.id \in acc.edge_ids
                THEN <<Err("duplicate edge id", edge.id, "")>> ELSE <<>>)
            \o (IF edge.target \notin acc.node_ids
                THEN <<Err("target does not exist", EdgeLabel(edge, i), edge.target)>> ELSE <<>>)
            \o (IF /\ Truthy(edge.sourceHandle)
                   /\ LET src_type == DictGet(acc.node_types, edge.source)
                      IN /\ src_type \in DOMAIN CONDITIONAL_HANDLES
                         /\ edge.sourceHandle \notin CONDITIONAL_HANDLES[src_type]
                THEN <<Err("invalid sourceHandle", EdgeLabel(edge, i), edge.sourceHandle)>>
                ELSE <<>>),
         !.edge_ids = IF Truthy(edge.id) THEN @ \cup {edge.id} ELSE @,
         !.outgoing = @ \cup {edge.source}]

\* the iteration without `and handle` in the test of the sourceHandle
EdgeStep_NoHandleGuard(edge, i, acc) ==
    IF ~edge.isobj THEN [acc EXCEPT !.raised = "AttributeError"]
    ELSE IF ~Truthy(edge.source) \/ ~Truthy(edge.target)
    THEN [acc EXCEPT !.errors = Append(@, Err("edge missing source or target", Idx(i), ""))]
    ELSE IF UnhashableV \in {edge.id, edge.source, edge.target}
    THEN [acc EXCEPT !.raised = "TypeError"]
    ELSE IF /\ edge.source \in DictKeys(acc.node_types)
            /\ edge.sourceHandle = UnhashableV
            /\ DictGet(acc.node_types, edge.source) \in DOMAIN CONDITIONAL_HANDLES
    THEN [acc EXCEPT !.raised = "TypeError"]
    ELSE
      [acc EXCEPT
         !.errors = @
            \o (IF Truthy(edge.id) /\ edge.id \in acc.edge_ids
                THEN <<Err("duplicate edge id", edge.id, "")>> ELSE <<>>)
            \o (IF edge.source \notin acc.node_ids
                THEN <<Err("source does not exist", EdgeLabel(edge, i), edge.source)>> ELSE <<>>)
            \o (IF edge.target \notin acc.node_ids
                THEN <<Err("target does not exist", EdgeLabel(edge, i), edge.target)>> ELSE <<>>)
            \o (IF /\ edge.source \in DictKeys(acc.node_types)
                   /\ LET src_type == DictGet(acc.node_types, edge.source)
                      IN /\ src_type \in DOMAIN CONDITIONAL_HANDLES
                         /\ edge.sourceHandle \notin CONDITIONAL_HANDLES[src_type]
                THEN <<Err("invalid sourceHandle", EdgeLabel(edge, i), edge.sourceHandle)>>
                ELSE <<>>),
         !.edge_ids = IF Truthy(edge.id) THEN @ \cup {edge.id} ELSE @,
         !.outgoing = IF edge.source \in acc.node_ids THEN @ \cup {edge.source} ELSE @]

\* one iteration of `for i, edge in enumerate(edges)`
EdgeStep(edge, i, acc) ==
    IF ~edge.isobj THEN [acc EXCEPT !.raised = "AttributeError"]
    ELSE IF ~Truthy(edge.source) \/ ~Truthy(edge.target)
    THEN [acc EXCEPT !.errors = Append(@, Err("edge missing source or target", Idx(i), ""))]
    ELSE IF UnhashableV \in {edge.id, edge.source, edge.target}
    THEN [acc EXCEPT !.raised = "TypeError"]
    ELSE IF /\ edge.source \in DictKeys(acc.node_types)
            /\ edge.sourceHandle = UnhashableV
            /\ DictGet(acc.node_types, edge.source) \in DOMAIN CONDITIONAL_HANDLES
    THEN [acc EXCEPT !.raised = "TypeError"]
    ELSE
      [acc EXCEPT
         !.errors = @
            \o (IF Truthy(edge.id) /\ edge.id \in acc.edge_ids
                THEN <<Err("duplicate edge id", edge.id, "")>> ELSE <<>>)
            \o (IF edge.source \notin acc.node_ids
                THEN <<Err("source does not exist", EdgeLabel(edge, i), edge.source)>> ELSE <<>>)
            \o (IF edge.target \notin acc.node_ids
                THEN <<Err("target does not exist", EdgeLabel(edge, i), edge.target)>> ELSE <<>>)
            \o (IF /\ edge.source \in DictKeys(acc.node_types)
                   /\ Truthy(edge.sourceHandle)
                   /\ LET src_type == DictGet(acc.node_types, edge.source)
                      IN /\ src_type \in DOMAIN CONDITIONAL_HANDLES
                         /\ edge.sourceHandle \notin CONDITIONAL_HANDLES[src_type]
                THEN <<Err("invalid sourceHandle", EdgeLabel(edge, i), edge.sourceHandle)>>
                ELSE <<>>),
         !.edge_ids = IF Truthy(edge.id) THEN @ \cup {edge.id} ELSE @,
         !.outgoing = IF edge.source \in acc.node_ids THEN @ \cup {edge.source} ELSE @]

RECURSIVE EdgeLoop(_, _, _)
EdgeLoop(edges, i, acc) ==
    IF i > Len(edges) \/ acc.raised # "none" THEN acc
    ELSE EdgeLoop(edges, i + 1, EdgeStep(edges[i], i, acc))

\* the closing loops without the test `nid not in outgoing`
RECURSIVE NoOutgoingErrors_NoLookup(_, _, _, _, _)
NoOutgoingErrors_NoLookup(node_types, outgoing, types, code, k) ==
    IF k > Len(node_types) THEN <<>>
    ELSE (IF node_types[k][2] \in types
          THEN <<Err(code, node_types[k][1], node_types[k][2])>> ELSE <<>>)
         \o NoOutgoingErrors_NoLookup(node_types, outgoing, types, code, k + 1)

\* the two closing loops over node_types.items()
RECURSIVE NoOutgoingErrors(_, _, _, _, _)
NoOutgoingErrors(node_types, outgoing, types, code, k) ==
    IF k > Len(node_types) THEN <<>>
    ELSE (IF node_types[k][2] \in types /\ node_types[k][1] \notin outgoing
          THEN <<Err(code, node_types[k][1], node_types[k][2])>> ELSE <<>>)
         \o NoOutgoingErrors(node_types, outgoing, types, code, k + 1)

Returns(errors) == [raised |-> "none", errors |-> errors]
Raises(exc) == [raised |-> exc, errors |-> <<>>]

\* validate_flow without the two isinstance(..., list) checks: a missing nodes
\* is falsy, enumerate(edges) raises on a missing edges
validate_flow_NoListCheck(flow_json) ==
    LET parsed == json_loads(flow_json) IN
    IF parsed.raised # "none" THEN Returns(<<Err("Invalid JSON", "", "")>>)
    ELSE LET flow == parsed.val IN
    IF flow.kind # "object" THEN Returns(<<Err("Flow must be a JSON object", "", "")>>)
    ELSE IF flow.nodes.items = <<>> THEN Returns(<<Err("Flow has no nodes", "", "")>>)
    ELSE
      LET acc0 == [raised |-> "none", errors |-> <<>>, node_ids |-> {}, node_types |-> <<>>,
                   has_trigger |-> FALSE, edge_ids |-> {}, outgoing |-> {}]
          acc1 == NodeLoop(flow.nodes.items, 1, acc0)
          acc2 == [acc1 EXCEPT !.errors =
                     IF acc1.has_trigger THEN @
                     ELSE Append(@, Err("no trigger node", "", ""))]
          acc3 == EdgeLoop(flow.edges.items, 1, acc2)
      IN IF acc1.raised # "none" THEN Raises(acc1.raised)
         ELSE IF flow.edges.tag # "list" THEN Raises("TypeError")
         ELSE IF acc3.raised # "none" THEN Raises(acc3.raised)
         ELSE Returns(acc3.errors
                \o NoOutgoingErrors(acc3.node_types, acc3.outgoing, DOMAIN CONDITIONAL_HANDLES,
                                    "conditional node has no outgoing edges", 1)
                \o NoOutgoingErrors(acc3.node_types, acc3.outgoing, TRIGGER_TYPES,
                                    "trigger node has no outgoing edges", 1))

\* validate_flow that tests both members before it returns
validate_flow_BothMembers(flow_json) ==
    LET parsed == json_loads(flow_json) IN
    IF parsed.raised # "none" THEN Returns(<<Err("Invalid JSON", "", "")>>)
    ELSE LET flow == parsed.val IN
    IF flow.kind # "object" THEN Returns(<<Err("Flow must be a JSON object", "", "")>>)
    ELSE IF flow.nodes.tag # "list" \/ flow.edges.tag # "list"
    THEN Returns((IF flow.nodes.tag # "list"
                  THEN <<Err("Missing or invalid array", "nodes", "")>> ELSE <<>>)
              \o (IF flow.edges.tag # "list"
                  THEN <<Err("Missing or invalid array", "edges", "")>> ELSE <<>>))
    ELSE IF flow.nodes.items = <<>> THEN Returns(<<Err("Flow has no nodes", "", "")>>)
    ELSE
      LET acc0 == [raised |-> "none", errors |-> <<>>, node_ids |-> {}, node_types |-> <<>>,
                   has_trigger |-> FALSE, edge_ids |-> {}, outgoing |-> {}]
          acc1 == NodeLoop(flow.nodes.items, 1, acc0)
          acc2 == [acc1 EXCEPT !.errors =
                     IF acc1.has_trigger THEN @
                     ELSE Append(@, Err("no trigger node", "", ""))]
          acc3 == EdgeLoop(flow.edges.items, 1, acc2)
      IN IF acc1.raised # "none" THEN Raises(acc1.raised)
         ELSE IF acc3.raised # "none" THEN Raises(acc3.raised)
         ELSE Returns(acc3.errors
                \o NoOutgoingErrors(acc3.node_types, acc3.outgoing, DOMAIN CONDITIONAL_HANDLES,
                                    "conditional node has no outgoing edges", 1)
                \o NoOutgoingErrors(acc3.node_types, acc3.outgoing, TRIGGER_TYPES,
                                    "trigger node has no outgoing edges", 1))

\* validate_flow that tests has_trigger after the edge loop
validate_flow_TriggerAfterEdges(flow_json) ==
    LET parsed == json_loads(flow_json) IN
    IF parsed.raised # "none" THEN Returns(<<Err("Invalid JSON", "", "")>>)
    ELSE LET flow == parsed.val IN
    IF flow.kind # "object" THEN Returns(<<Err("Flow must be a JSON object", "", "")>>)
    ELSE IF flow.nodes.tag # "list" THEN Returns(<<Err("Missing or invalid array", "nodes", "")>>)
    ELSE IF flow.edges.tag # "list" THEN Returns(<<Err("Missing or invalid array", "edges", "")>>)
    ELSE IF flow.nodes.items = <<>> THEN Returns(<<Err("Flow has no nodes", "", "")>>)
    ELSE
      LET acc0 == [raised |-> "none", errors |-> <<>>, node_ids |-> {}, node_types |-> <<>>,
                   has_trigger |-> FALSE, edge_ids |-> {}, outgoing |-> {}]
          acc1 == NodeLoop(flow.nodes.items, 1, acc0)
          acc2 == EdgeLoop(flow.edges.items, 1, acc1)
          acc3 == [acc2 EXCEPT !.errors =
                     IF acc2.has_trigger THEN @
                     ELSE Append(@, Err("no trigger node", "", ""))]
      IN IF acc1.raised # "none" THEN Raises(acc1.raised)
         ELSE IF acc3.raised # "none" THEN Raises(acc3.raised)
         ELSE Returns(acc3.errors
                \o NoOutgoingErrors(acc3.node_types, acc3.outgoing, DOMAIN CONDITIONAL_HANDLES,
                                    "conditional node has no outgoing edges", 1)
                \o NoOutgoingErrors(acc3.node_types, acc3.outgoing, TRIGGER_TYPES,
                                    "trigger node has no outgoing edges", 1))

validate_flow(flow_json) ==
    LET parsed == json_loads(flow_json) IN
    IF parsed.raised # "none" THEN Returns(<<Err("Invalid JSON", "", "")>>)
    ELSE LET flow == parsed.val IN
    IF flow.kind # "object" THEN Returns(<<Err("Flow must be a JSON object", "", "")>>)
    ELSE IF flow.nodes.tag # "list" THEN Returns(<<Err("Missing or invalid array", "nodes", "")>>)
    ELSE IF flow.edges.tag # "list" THEN Returns(<<Err("Missing or invalid array", "edges", "")>>)
    ELSE IF flow.nodes.items = <<>> THEN Returns(<<Err("Flow has no nodes", "", "")>>)
    ELSE
      LET acc0 == [raised |-> "none", errors |-> <<>>, node_ids |-> {}, node_types |-> <<>>,
                   has_trigger |-> FALSE, edge_ids |-> {}, outgoing |-> {}]
          acc1 == NodeLoop(flow.nodes.items, 1, acc0)
          acc2 == [acc1 EXCEPT !.errors =
                     IF acc1.has_trigger THEN @
                     ELSE Append(@, Err("no trigger node", "", ""))]
          acc3 == EdgeLoop(flow.edges.items, 1, acc2)
      IN IF acc1.raised # "none" THEN Raises(acc1.raised)
         ELSE IF acc3.raised # "none" THEN Raises(acc3.raised)
         ELSE Returns(acc3.errors
                \o NoOutgoingErrors(acc3.node_types, acc3.outgoing, DOMAIN CONDITIONAL_HANDLES,
                                    "conditional node has no outgoing edges", 1)
                \o NoOutgoingErrors(acc3.node_types, acc3.outgoing, TRIGGER_TYPES,
                                    "trigger node has no outgoing edges", 1))

(***************************************************************************)
(* The completion service.  A response is either a failure of the call     *)
(* (network, timeout, quota) or a reply text, described by what the code   *)
(* reads of it: its prose (text), whether its lower-cased text contains    *)
(* one of the bot-intent keywords (kw), its ```json blocks in text order   *)
(* (blocks) and its lines that matter to requirement extraction (lines).   *)
(***************************************************************************)

Reply(text, kw, blocks, lines) ==
    [fail |-> FALSE, text |-> text, kw |-> kw, blocks |-> blocks, lines |-> lines]
CallFailure == [fail |-> TRUE, text |-> "", kw |-> FALSE, blocks |-> <<>>, lines |-> <<>>]
NoResponse == [fail |-> FALSE, text |-> "", kw |-> FALSE, blocks |-> <<>>, lines |-> <<>>]

\* a line of a reply: whether it starts with one of the bullet prefixes, the
\* length of the stripped line, the requirement text left by lstrip/strip
Line(bullet, slen, req, rlen) == [bullet |-> bullet, slen |-> slen, req |-> req, rlen |-> rlen]

Content(text, blocks) == [text |-> text, blocks |-> blocks]
HumanMessage(content) == [role |-> "user", content |-> content]
AIMessage(content) == [role |-> "assistant", content |-> content]

(***************************************************************************)
(* agent.py: helpers.                                                      *)
(***************************************************************************)

MAX_VALIDATION_RETRIES == 2

CannedReply == "Flow tayyor!"

\* _extract_flow_json: [raised, flow]; flow is NoFlow for None
RECURSIVE ExtractFrom(_, _)
ExtractFrom(blocks, i) ==
    IF i > Len(blocks) THEN [raised |-> "none", flow |-> NoFlow]
    ELSE LET parsed == json_loads(blocks[i]) IN
         IF parsed.raised # "none" THEN ExtractFrom(blocks, i + 1)
         ELSE IF InRaises(parsed.val) THEN [raised |-> "TypeError", flow |-> NoFlow]
         ELSE IF In("nodes", parsed.val) /\ In("edges", parsed.val)
              THEN [raised |-> "none", flow |-> json_dumps(parsed.val)]
              ELSE ExtractFrom(blocks, i + 1)

_extract_flow_json(response) == ExtractFrom(response.blocks, 1)

\* _strip_flow_json: every ```json block removed, the canned acknowledgment
\* when nothing is left
_strip_flow_json(response) ==
    Content(IF response.text = "" THEN CannedReply ELSE response.text, <<>>)

\* _detect_phase (the extractor has returned when this is evaluated)
_detect_phase(state, response) ==
    IF _extract_flow_json(response).flow # NoFlow THEN "done"
    ELSE IF state.phase = "chat" THEN (IF response.kw THEN "generating" ELSE state.phase)
    ELSE IF state.phase = "gathering" THEN "generating"
    ELSE state.phase

\* _extract_requirements
RECURSIVE ExtractReqs(_, _, _)
ExtractReqs(lines, k, reqs) ==
    IF k > Len(lines) THEN reqs
    ELSE LET l == lines[k] IN
         ExtractReqs(lines, k + 1,
            IF /\ l.bullet /\ l.slen > 10
               /\ ~ (\E j \in DOMAIN reqs : reqs[j] = l.req) /\ l.rlen < 200
            THEN Append(reqs, l.req) ELSE reqs)

\* _extract_requirements without the test `req not in reqs`
RECURSIVE ExtractReqsNoDedup(_, _, _)
ExtractReqsNoDedup(lines, k, reqs) ==
    IF k > Len(lines) THEN reqs
    ELSE LET l == lines[k] IN
         ExtractReqsNoDedup(lines, k + 1,
            IF l.bullet /\ l.slen > 10 /\ l.rlen < 200 THEN Append(reqs, l.req) ELSE reqs)

_extract_requirements_NoDedup(response, existing) ==
    ExtractReqsNoDedup(response.lines, 1, existing)

_extract_requirements(response, existing) == ExtractReqs(response.lines, 1, existing)

(***************************************************************************)
(* agent.py: the three nodes.  Each takes the graph state and the response *)
(* of the completion service to the call it makes (if it makes one) and    *)
(* gives [raised, called, state]: the exception that leaves the node       *)
(* ("none" when it returns), whether it called the service, and the graph  *)
(* state with the node's updates merged.                                   *)
(***************************************************************************)

NodeReturns(called, state) == [raised |-> "none", called |-> called, state |-> state]
NodeRaises(exc, state) == [raised |-> exc, called |-> TRUE, state |-> state]

\* chat_node that leaves turn_count as it is
chat_node_NoCount(state, response) ==
    IF response.fail THEN NodeRaises("CompletionError", state)
    ELSE LET ext == _extract_flow_json(response) IN
    IF ext.raised # "none" THEN NodeRaises(ext.raised, state)
    ELSE
      LET new_phase == _detect_phase(state, response)
          flow_json == ext.flow
          clean_content == IF flow_json # NoFlow THEN _strip_flow_json(response)
                           ELSE Content(response.text, response.blocks)
      IN NodeReturns(TRUE,
           [state EXCEPT
              !.messages = Append(@, AIMessage(clean_content)),
              !.phase = IF flow_json # NoFlow THEN "validating" ELSE new_phase,
              !.flow_json = IF flow_json # NoFlow THEN flow_json ELSE @,
              !.requirements = _extract_requirements(response, @)])

\* chat_node that keeps the phase _detect_phase gave when a document was found
chat_node_KeepsDetected(state, response) ==
    IF response.fail THEN NodeRaises("CompletionError", state)
    ELSE LET ext == _extract_flow_json(response) IN
    IF ext.raised # "none" THEN NodeRaises(ext.raised, state)
    ELSE
      LET new_phase == _detect_phase(state, response)
          flow_json == ext.flow
          clean_content == IF flow_json # NoFlow THEN _strip_flow_json(response)
                           ELSE Content(response.text, response.blocks)
      IN NodeReturns(TRUE,
           [state EXCEPT
              !.messages = Append(@, AIMessage(clean_content)),
              !.turn_count = @ + 1,
              !.phase = new_phase,
              !.flow_json = IF flow_json # NoFlow THEN flow_json ELSE @,
              !.requirements = _extract_requirements(response, @)])

chat_node(state, response) ==
    IF response.fail THEN NodeRaises("CompletionError", state)
    ELSE LET ext == _extract_flow_json(response) IN
    IF ext.raised # "none" THEN NodeRaises(ext.raised, state)
    ELSE
      LET new_phase == _detect_phase(state, response)
          flow_json == ext.flow
          clean_content == IF flow_json # NoFlow THEN _strip_flow_json(response)
                           ELSE Content(response.text, response.blocks)
      IN NodeReturns(TRUE,
           [state EXCEPT
              !.messages = Append(@, AIMessage(clean_content)),
              !.turn_count = @ + 1,
              !.phase = IF flow_json # NoFlow THEN "validating" ELSE new_phase,
              !.flow_json = IF flow_json # NoFlow THEN flow_json ELSE @,
              !.requirements = _extract_requirements(response, @)])

\* generate_flow_node that runs into the repair loop's exit when no document
\* was extracted: phase done, the budget marked as spent
generate_flow_node_GivesUp(state, response) ==
    IF response.fail THEN NodeRaises("CompletionError", state)
    ELSE LET ext == _extract_flow_json(response) IN
    IF ext.raised # "none" THEN NodeRaises(ext.raised, state)
    ELSE
      LET flow_json == ext.flow
          clean_content == IF flow_json # NoFlow THEN _strip_flow_json(response)
                           ELSE Content(response.text, response.blocks)
      IN NodeReturns(TRUE,
           [state EXCEPT
              !.messages = Append(@, AIMessage(clean_content)),
              !.flow_json = IF flow_json # NoFlow THEN flow_json ELSE @,
              !.validation_retries = IF flow_json # NoFlow THEN @ ELSE MAX_VALIDATION_RETRIES,
              !.phase = IF flow_json # NoFlow THEN "validating" ELSE "done"])

generate_flow_node(state, response) ==
    IF response.fail THEN NodeRaises("CompletionError", state)
    ELSE LET ext == _extract_flow_json(response) IN
    IF ext.raised # "none" THEN NodeRaises(ext.raised, state)
    ELSE
      LET flow_json == ext.flow
          clean_content == IF flow_json # NoFlow THEN _strip_flow_json(response)
                           ELSE Content(response.text, response.blocks)
      IN NodeReturns(TRUE,
           [state EXCEPT
              !.messages = Append(@, AIMessage(clean_content)),
              !.flow_json = IF flow_json # NoFlow THEN flow_json ELSE @,
              !.phase = IF flow_json # NoFlow THEN "validating" ELSE "chat"])

\* validate_flow_node with the retry budget tested by > for >=
validate_flow_node_OffByOne(state, response) ==
    IF state.flow_json = NoFlow THEN NodeReturns(FALSE, [state EXCEPT !.phase = "chat"])
    ELSE LET res == validate_flow(state.flow_json) IN
    IF res.raised # "none" THEN [raised |-> res.raised, called |-> FALSE, state |-> state]
    ELSE IF res.errors = <<>> THEN NodeReturns(FALSE, [state EXCEPT !.phase = "done"])
    ELSE IF state.validation_retries > MAX_VALIDATION_RETRIES
    THEN NodeReturns(FALSE, [state EXCEPT !.phase = "done"])
    ELSE IF response.fail THEN NodeRaises("CompletionError", state)
    ELSE LET ext == _extract_flow_json(response) IN
    IF ext.raised # "none" THEN NodeRaises(ext.raised, state)
    ELSE
      NodeReturns(TRUE,
        [state EXCEPT
           !.validation_retries = @ + 1,
           !.flow_json = IF ext.flow # NoFlow THEN ext.flow ELSE @,
           !.phase = IF ext.flow # NoFlow THEN "validating" ELSE "done"])

\* validate_flow_node that accepts the document of the last repair the budget
\* allows without validating it
validate_flow_node_TrustsLastRepair(state, response) ==
    IF state.flow_json = NoFlow THEN NodeReturns(FALSE, [state EXCEPT !.phase = "chat"])
    ELSE LET res == validate_flow(state.flow_json) IN
    IF res.raised # "none" THEN [raised |-> res.raised, called |-> FALSE, state |-> state]
    ELSE IF res.errors = <<>> THEN NodeReturns(FALSE, [state EXCEPT !.phase = "done"])
    ELSE IF state.validation_retries >= MAX_VALIDATION_RETRIES
    THEN NodeReturns(FALSE, [state EXCEPT !.phase = "done"])
    ELSE IF response.fail THEN NodeRaises("CompletionError", state)
    ELSE LET ext == _extract_flow_json(response) IN
    IF ext.raised # "none" THEN NodeRaises(ext.raised, state)
    ELSE
      NodeReturns(TRUE,
        [state EXCEPT
           !.validation_retries = @ + 1,
           !.flow_json = IF ext.flow # NoFlow THEN ext.flow ELSE @,
           !.phase = IF ext.flow # NoFlow
                          /\ state.validation_retries + 1 < MAX_VALIDATION_RETRIES
                     THEN "validating" ELSE "done"])

\* validate_flow_node that accepts a defective flow without asking for a repair
validate_flow_node_NoRepair(state, response) ==
    IF state.flow_json = NoFlow THEN NodeReturns(FALSE, [state EXCEPT !.phase = "chat"])
    ELSE LET res == validate_flow(state.flow_json) IN
    IF res.raised # "none" THEN [raised |-> res.raised, called |-> FALSE, state |-> state]
    ELSE NodeReturns(FALSE, [state EXCEPT !.phase = "done"])

validate_flow_node(state, response) ==
    IF state.flow_json = NoFlow THEN NodeReturns(FALSE, [state EXCEPT !.phase = "chat"])
    ELSE LET res == validate_flow(state.flow_json) IN
    IF res.raised # "none" THEN [raised |-> res.raised, called |-> FALSE, state |-> state]
    ELSE IF res.errors = <<>> THEN NodeReturns(FALSE, [state EXCEPT !.phase = "done"])
    ELSE IF state.validation_retries >= MAX_VALIDATION_RETRIES
    THEN NodeReturns(FALSE, [state EXCEPT !.phase = "done"])
    ELSE IF response.fail THEN NodeRaises("CompletionError", state)
    ELSE LET ext == _extract_flow_json(response) IN
    IF ext.raised # "none" THEN NodeRaises(ext.raised, state)
    ELSE
      NodeReturns(TRUE,
        [state EXCEPT
           !.validation_retries = @ + 1,
           !.flow_json = IF ext.flow # NoFlow THEN ext.flow ELSE @,
           !.phase = IF ext.flow # NoFlow THEN "validating" ELSE "done"])

\* routing

\* route_after_chat that ends the turn on generating
route_after_chat_EndsOnGenerating(state) ==
    IF state.phase = "validating" THEN "validate_flow" ELSE "END"

route_after_chat(state) ==
    IF state.phase = "generating" THEN "generate_flow"
    ELSE IF state.phase = "validating" THEN "validate_flow"
    ELSE "END"

route_after_generate(state) ==
    IF state.phase = "validating" THEN "validate_flow" ELSE "END"

route_after_validate(state) ==
    IF state.phase = "validating" THEN "validate_flow" ELSE "END"

(***************************************************************************)
(* The documents and replies the completion service is let to produce.     *)
(***************************************************************************)

StartNode == Node("start", "CommandTriggerNode", DataObj({<<"command", "value">>}), TRUE)
HelloNode == Node("hello", "SendTextMessageNode", DataObj({<<"messageText", "value">>}), TRUE)
HelloNoPosition == Node("hello", "SendTextMessageNode", DataObj({<<"messageText", "value">>}), FALSE)
LoneIf == Node("cond", "IfConditionNode", DataAbsent, TRUE)
StartToHello == Edge("e1", "start", "hello", NoneV)

\* zero defects
DocValid == JObject(List(<<StartNode, HelloNode>>), List(<<StartToHello>>))
\* one defect: a node without position
DocNoPosition == JObject(List(<<StartNode, HelloNoPosition>>), List(<<StartToHello>>))
\* two defects: no entry point, conditional node without outgoing edges
DocLoneIf == JObject(List(<<LoneIf>>), List(<<>>))
\* accepted by the extractor, an element of nodes is not an object
DocBadNode == JObject(List(<<NotANode>>), List(<<>>))
\* a string holding both words
StrNodesEdges == JString({"nodes", "edges"})

Bullets == <<Line(TRUE, 24, "start command greets", 20)>>
\* a repeated bullet, a bullet of 7 characters, a bullet whose text is exactly
\* 200 characters, one of 201, a line without a bullet prefix, a new bullet
MoreBullets ==
    << Line(TRUE, 24, "start command greets", 20),
       Line(TRUE, 7, "short", 5),
       Line(TRUE, 202, "text of 200 characters", 200),
       Line(TRUE, 203, "text of 201 characters", 201),
       Line(FALSE, 30, "a line that is no bullet", 30),
       Line(TRUE, 20, "help command", 12),
       Line(TRUE, 20, "help command", 12) >>
\* an object without nodes and edges
ObjOther == JObject(Absent, Absent)

Replies ==
    { Reply("hello", FALSE, <<>>, <<>>),
      Reply("your bot", TRUE, <<>>, Bullets),
      Reply("here it is", TRUE, <<RawText(DocValid)>>, <<>>),
      Reply("", FALSE, <<RawText(DocNoPosition)>>, <<>>),
      Reply("", FALSE, <<Malformed, RawText(DocLoneIf)>>, <<>>),
      Reply("", TRUE, <<RawText(DocBadNode)>>, <<>>),
      Reply("", FALSE, <<RawText(StrNodesEdges)>>, <<>>),
      Reply("", FALSE, <<RawText(JNumber)>>, <<>>),
      Reply("a bot", TRUE, <<RawText(JNumber)>>, <<>>),
      Reply("look", FALSE, <<Malformed, RawText(ObjOther)>>, MoreBullets) }

Responses == Replies \cup {CallFailure}

UserMessage == HumanMessage(Content("make me a bot", <<>>))
GeneratePrompt == HumanMessage(Content("Create a Telegram bot ... Generate the complete flow JSON now.", <<>>))

MaxTurns == 2

(***************************************************************************)
(* State.                                                                  *)
(*   frontEnd   the caller that holds the session: run_agent, the API's    *)
(*              session endpoints, the CLI loop, or the API's one-shot     *)
(*              /generate (which holds none)                               *)
(*   session    the session the caller holds between turns (AgentState,    *)
(*              the CLI's state dict, the sessions row)                    *)
(*   msgCache   the API's _msg_cache entry of the session                  *)
(*   st         the graph state of agent.invoke                            *)
(*   pc         "idle", the node agent.invoke runs next, "END", "raised"   *)
(*   exc        the exception that left agent.invoke                       *)
(*   calls      completion-service calls made in the current turn          *)
(*   trail      the nodes run in the current turn, each with what its call *)
(*              brought: "no call", "call failed", "document" (a reply     *)
(*              with an extractable document), "no document" (a reply for  *)
(*              which the extractor returns None), "extractor raised"      *)
(*   pre        the session as the caller saw it when the turn began       *)
(*   last       the last operation completed on the session                *)
(*   turns      turns begun                                                *)
(***************************************************************************)
VARIABLES frontEnd, session, msgCache, st, pc, exc, calls, trail, pre, last, turns

vars == <<frontEnd, session, msgCache, st, pc, exc, calls, trail, pre, last, turns>>

FrontEnds == {"run_agent", "api", "cli", "generate"}

\* AgentState(), the CLI's initial dict, a row of create_session
EmptySession ==
    [messages |-> <<>>, requirements |-> <<>>, flow_json |-> NoFlow,
     phase |-> "chat", turn_count |-> 0, validation_retries |-> 0]

NoCache == [present |-> FALSE, msgs |-> <<>>]
Cached(msgs) == [present |-> TRUE, msgs |-> msgs]

\* _serialize_messages / _deserialize_messages: role-tagged entries, other
\* kinds of message dropped
_serialize_messages(messages) == SelectSeq(messages, LAMBDA m : m.role \in {"user", "assistant"})
_deserialize_messages(data) == SelectSeq(data, LAMBDA m : m.role \in {"user", "assistant"})

\* _load_messages: the cache entry, filled from the row when there is none
_load_messages(cache, row) ==
    IF cache.present THEN cache.msgs ELSE _deserialize_messages(row.messages)

\* database.update_session: an argument that is None (<<>>) leaves its column
Given(v) == <<v>>
NotGiven == <<>>
update_session(row, phase, turn_count, requirements, flow_json, messages_json) ==
    [row EXCEPT
       !.phase = IF Len(phase) = 0 THEN @ ELSE phase[1],
       !.turn_count = IF Len(turn_count) = 0 THEN @ ELSE turn_count[1],
       !.requirements = IF Len(requirements) = 0 THEN @ ELSE requirements[1],
       !.flow_json = IF Len(flow_json) = 0 THEN @ ELSE flow_json[1],
       !.messages = IF Len(messages_json) = 0 THEN @ ELSE messages_json[1]]

\* a str | None argument
OptFlow(flow_json) == IF flow_json = NoFlow THEN NotGiven ELSE Given(flow_json)

\* what the caller sees of the session: for the API the history endpoint
\* reads the messages through _load_messages
View ==
    [messages |-> IF frontEnd = "api" THEN _load_messages(msgCache, session) ELSE session.messages,
     requirements |-> session.requirements,
     flow_json |-> session.flow_json,
     phase |-> session.phase,
     turn_count |-> session.turn_count]

Init ==
    /\ frontEnd \in FrontEnds
    /\ session = EmptySession
    /\ msgCache = NoCache
    /\ st = EmptySession
    /\ pc = "idle"
    /\ exc = "none"
    /\ calls = 0
    /\ trail = <<>>
    /\ pre = View
    /\ last = "init"
    /\ turns = 0

(***************************************************************************)
(* A turn begins: the caller builds the input state of agent.invoke.  None *)
(* of the callers passes validation_retries, so the graph state starts at  *)
(* the field's default, 0.                                                 *)
(***************************************************************************)

\* an input state that carries only the newest message of the history
InputState_OnlyLast(messages, requirements, flow_json, phase, turn_count) ==
    [messages |-> IF messages = <<>> THEN <<>> ELSE <<messages[Len(messages)]>>,
     requirements |-> requirements, flow_json |-> flow_json,
     phase |-> phase, turn_count |-> turn_count, validation_retries |-> 0]

InputState(messages, requirements, flow_json, phase, turn_count) ==
    [messages |-> messages, requirements |-> requirements, flow_json |-> flow_json,
     phase |-> phase, turn_count |-> turn_count, validation_retries |-> 0]

StartTurn ==
    /\ pc = "idle"
    /\ turns < MaxTurns
    /\ pc' = "chat"
    /\ exc' = "none"
    /\ calls' = 0
    /\ trail' = <<>>
    /\ pre' = View
    /\ turns' = turns + 1
    /\ UNCHANGED <<frontEnd, last>>

\* run_agent: input_state built from the caller's AgentState, which is not touched
RunAgentBegin ==
    /\ frontEnd = "run_agent"
    /\ StartTurn
    /\ st' = InputState(Append(session.messages, UserMessage), session.requirements,
                        session.flow_json, session.phase, session.turn_count)
    /\ UNCHANGED <<session, msgCache>>

\* cli.main: the user message is appended to state["messages"] before the call
CliBegin ==
    /\ frontEnd = "cli"
    /\ StartTurn
    /\ session' = [session EXCEPT !.messages = Append(@, UserMessage)]
    /\ st' = InputState(session'.messages, session.requirements,
                        session.flow_json, session.phase, session.turn_count)
    /\ UNCHANGED msgCache

\* api.chat: _load_messages hands out the cached list itself and the user
\* message is appended to it in place
ApiChatBegin ==
    /\ frontEnd = "api"
    /\ StartTurn
    /\ msgCache' = Cached(Append(_load_messages(msgCache, session), UserMessage))
    /\ st' = InputState(msgCache'.msgs, session.requirements,
                        session.flow_json, session.phase, session.turn_count)
    /\ UNCHANGED session

\* api.generate_flow: a fresh state in phase generating
GenerateBegin ==
    /\ frontEnd = "generate"
    /\ StartTurn
    /\ st' = InputState(<<GeneratePrompt>>, <<>>, NoFlow, "generating", 0)
    /\ UNCHANGED <<session, msgCache>>

(***************************************************************************)
(* agent.invoke: one node per step, then its routing function.  An         *)
(* exception in a node leaves agent.invoke.                                *)
(***************************************************************************)

Brought(out, response) ==
    IF ~out.called THEN "no call"
    ELSE IF response.fail THEN "call failed"
    ELSE IF _extract_flow_json(response).raised # "none" THEN "extractor raised"
    ELSE IF _extract_flow_json(response).flow # NoFlow THEN "document"
    ELSE "no document"

\* the response the node got to its call (none when it made no call)
Heard(out, response) == IF out.called THEN response ELSE NoResponse

RunNode(node, out, response, next) ==
    /\ st' = out.state
    /\ trail' = Append(trail, [node |-> node, reply |-> Brought(out, response),
                                response |-> Heard(out, response)])
    /\ exc' = out.raised
    /\ pc' = IF out.raised # "none" THEN "raised" ELSE next
    /\ calls' = calls + (IF out.called THEN 1 ELSE 0)
    /\ UNCHANGED <<frontEnd, session, msgCache, pre, last, turns>>

ChatNode ==
    /\ pc = "chat"
    /\ \E response \in Responses :
         LET out == chat_node(st, response)
         IN RunNode("chat", out, response, route_after_chat(out.state))

GenerateFlowNode ==
    /\ pc = "generate_flow"
    /\ \E response \in Responses :
         LET out == generate_flow_node(st, response)
         IN RunNode("generate_flow", out, response, route_after_generate(out.state))

ValidateFlowNode ==
    /\ pc = "validate_flow"
    /\ \E response \in Responses :
         LET out == validate_flow_node(st, response)
         IN RunNode("validate_flow", out, response, route_after_validate(out.state))

(***************************************************************************)
(* agent.invoke returns: the caller stores the result.                     *)
(***************************************************************************)

FinishTurn ==
    /\ pc = "END"
    /\ pc' = "idle"
    /\ last' = "turn"
    /\ UNCHANGED <<frontEnd, st, exc, calls, trail, pre, turns>>

\* AgentState(messages=..., requirements=..., flow_json=..., phase=..., turn_count=...)
ResultState(result) ==
    InputState(result.messages, result.requirements, result.flow_json,
               result.phase, result.turn_count)

RunAgentEnd ==
    /\ frontEnd = "run_agent"
    /\ FinishTurn
    /\ session' = ResultState(st)
    /\ UNCHANGED msgCache

CliEnd ==
    /\ frontEnd = "cli"
    /\ FinishTurn
    /\ session' = ResultState(st)
    /\ UNCHANGED msgCache

\* _save_messages, then db.update_session(phase, turn_count, requirements, flow_json)
ApiChatEnd ==
    /\ frontEnd = "api"
    /\ FinishTurn
    /\ msgCache' = Cached(st.messages)
    /\ session' =
         update_session(
            update_session(session, NotGiven, NotGiven, NotGiven, NotGiven,
                           Given(_serialize_messages(st.messages))),
            Given(st.phase), Given(st.turn_count), Given(st.requirements),
            OptFlow(st.flow_json), NotGiven)

\* the flow of the result is returned (422 when there is none); nothing is stored
GenerateEnd ==
    /\ frontEnd = "generate"
    /\ FinishTurn
    /\ UNCHANGED <<session, msgCache>>

\* the exception reaches the caller: run_agent and the API let it through, the
\* CLI prints it and reads the next line
Propagate ==
    /\ pc = "raised"
    /\ pc' = "idle"
    /\ last' = "failed"
    /\ UNCHANGED <<frontEnd, session, msgCache, st, exc, calls, trail, pre, turns>>

(***************************************************************************)
(* Reset.                                                                  *)
(***************************************************************************)

\* api.reset_session
ApiReset ==
    /\ frontEnd = "api"
    /\ pc = "idle"
    /\ session' = update_session(session, Given("chat"), Given(0), Given(<<>>),
                                 NotGiven, Given(<<>>))
    /\ msgCache' = NoCache
    /\ last' = "reset"
    /\ UNCHANGED <<frontEnd, st, pc, exc, calls, trail, pre, turns>>

\* cli.main: the reset command
CliReset ==
    /\ frontEnd = "cli"
    /\ pc = "idle"
    /\ session' = EmptySession
    /\ last' = "reset"
    /\ UNCHANGED <<frontEnd, msgCache, st, pc, exc, calls, trail, pre, turns>>

Next ==
    \/ RunAgentBegin \/ CliBegin \/ ApiChatBegin \/ GenerateBegin
    \/ ChatNode \/ GenerateFlowNode \/ ValidateFlowNode
    \/ RunAgentEnd \/ CliEnd \/ ApiChatEnd \/ GenerateEnd
    \/ Propagate
    \/ ApiReset \/ CliReset

Spec == Init /\ [][Next]_vars

(***************************************************************************)
(* Properties.                                                             *)
(***************************************************************************)

Defects(flow_json) == validate_flow(flow_json).errors

TurnEnded == pc = "END"
Ran(node) == \E k \in DOMAIN trail : trail[k].node = node
LastStep == trail[Len(trail)]

\* the flow held is a JSON object: the counterexamples below are stated of
\* such flows, so that none rests on what else the extractor lets through
ObjectFlow(state) == state.flow_json # NoFlow /\ state.flow_json.val.kind = "object"

\* C1 (as stated): whenever a turn ends with phase done and a flow held,
\* validate_flow on that flow returns an empty defect list.
C1_HandedBackWellFormed ==
    (TurnEnded /\ st.phase = "done" /\ ObjectFlow(st))
        => validate_flow(st.flow_json) = Returns(<<>>)

\* C1 (amended): whenever a turn ends with phase done and a flow held, the
\* flow has no defects, or it is a best-effort result (the turn spent at least
\* one repair attempt), or the turn left the flow it started with untouched.
C1_WellFormedOrBestEffort ==
    (TurnEnded /\ st.phase = "done" /\ st.flow_json # NoFlow)
        => \/ validate_flow(st.flow_json) = Returns(<<>>)
           \/ st.validation_retries >= 1
           \/ st.flow_json = pre.flow_json

C1_Witness ==
    /\ TurnEnded /\ st.phase = "done" /\ st.flow_json # NoFlow
    /\ Defects(st.flow_json) # <<>>
    /\ st.validation_retries = MAX_VALIDATION_RETRIES
    /\ st.flow_json # pre.flow_json

\* C2: in every reachable state validationRetries is at most
\* MAX_VALIDATION_RETRIES, in the graph state and in the session the caller holds.
C2_RetriesBounded ==
    /\ st.validation_retries <= MAX_VALIDATION_RETRIES
    /\ session.validation_retries <= MAX_VALIDATION_RETRIES

\* the validation step is about to run on a defective flow with the budget spent
C2_Witness ==
    /\ pc = "validate_flow"
    /\ st.validation_retries = MAX_VALIDATION_RETRIES
    /\ Defects(st.flow_json) # <<>>

\* C3: once a turn has entered the validation step with a flow held, the
\* repair loop ends in phase done, whatever the completion service replies (a
\* call that fails gives no reply).
C3_LoopEndsInDone ==
    (/\ pc \in {"END", "raised"} /\ Ran("validate_flow") /\ exc # "CompletionError"
     /\ ObjectFlow(st) /\ validate_flow(st.flow_json).raised = "none")
        => (pc = "END" /\ st.phase = "done")

\* C4 (as stated): a turn makes at most 1 + maxRetries calls.
C4_AtMostOnePlusMax == calls <= 1 + MAX_VALIDATION_RETRIES

\* C4 (amended): a turn makes at most 2 + maxRetries = 4 calls: the
\* conversation call, at most one generation call and at most maxRetries
\* repair calls, whatever phase it starts in.
C4_AtMostTwoPlusMax ==
    /\ calls <= 2 + MAX_VALIDATION_RETRIES
    /\ Cardinality({k \in DOMAIN trail : trail[k].node = "chat"}) <= 1
    /\ Cardinality({k \in DOMAIN trail : trail[k].node = "generate_flow"}) <= 1
    /\ Cardinality({k \in DOMAIN trail : trail[k].node = "validate_flow"
                                         /\ trail[k].reply # "no call"}) <= MAX_VALIDATION_RETRIES

C4_Witness == TurnEnded /\ calls = 2 + MAX_VALIDATION_RETRIES

\* C5: if a completion-service call fails during a turn, the session the
\* caller holds afterwards equals the session before the turn.
C5_FailedTurnLeavesSession ==
    (pc = "idle" /\ last = "failed" /\ exc = "CompletionError") => View = pre

\* C6: after a reset the phase is chat, messages and requirements are empty,
\* turnCount is 0 and no flow is held.
C6_ResetGivesEmptySession ==
    (pc = "idle" /\ last = "reset") =>
        View = [messages |-> <<>>, requirements |-> <<>>, flow_json |-> NoFlow,
                phase |-> "chat", turn_count |-> 0]

\* C7: with no reset in between, validationRetries at the start of a turn
\* equals its value at the end of the previous turn.
C7_RetriesKeptAcrossTurns ==
    [][(pc = "idle" /\ pc' = "chat" /\ last = "turn")
          => st'.validation_retries = st.validation_retries]_vars

\* no reply of the turn so far held an extractable document
NoDocumentTurn ==
    /\ trail # <<>>
    /\ \A k \in DOMAIN trail : trail[k].reply \in {"no document", "extractor raised"}

\* C8 (as stated): if no reply of the turn holds an extractable document, the
\* turn ends with phase done, flow as before the turn and validationRetries
\* equal to maxRetries.
C8_NoDocumentEndsDoneExhausted ==
    (TurnEnded /\ NoDocumentTurn)
        => /\ st.phase = "done"
           /\ st.flow_json = pre.flow_json
           /\ st.validation_retries = MAX_VALIDATION_RETRIES

\* C8 (amended): in a turn in which no reply holds an extractable document
\* there is no repair attempt: at most the conversation call and one
\* generation call are made, flow stays the value held before the turn
\* (possibly none), validationRetries stays 0, and the turn ends in phase chat
\* (in done when it started in done).
C8_NoDocumentEndsWithoutRepair ==
    NoDocumentTurn
        => /\ st.flow_json = (IF frontEnd = "generate" THEN NoFlow ELSE pre.flow_json)
           /\ st.validation_retries = 0
           /\ ~Ran("validate_flow")
           /\ calls <= 2
           /\ (TurnEnded => st.phase = (IF pre.phase = "done" THEN "done" ELSE "chat"))

\* a turn of a conversation call and a generation call, neither with a document
C8_Witness ==
    /\ TurnEnded /\ NoDocumentTurn /\ Ran("generate_flow")
    /\ st.phase = "chat"

\* C9: the validation step on a flow with at least one defect makes exactly
\* one repair call and adds 1 to validationRetries when validationRetries < 2
\* (staying in validating when the reply holds an extractable document); with
\* validationRetries >= 2, or with zero defects, it makes no call, leaves flow
\* and validationRetries unchanged and moves to done.  (Of every reply: a
\* call that fails gives none.)
C9_ValidationStep ==
    [][(/\ pc = "validate_flow" /\ trail' # trail
        /\ ObjectFlow(st) /\ validate_flow(st.flow_json).raised = "none"
        /\ trail'[Len(trail')].reply # "call failed")
          => IF Defects(st.flow_json) # <<>> /\ st.validation_retries < 2
             THEN /\ calls' = calls + 1
                  /\ st'.validation_retries = st.validation_retries + 1
                  /\ (trail'[Len(trail')].reply = "document"
                        => st'.phase = "validating" /\ pc' = "validate_flow")
             ELSE /\ calls' = calls
                  /\ st'.flow_json = st.flow_json
                  /\ st'.validation_retries = st.validation_retries
                  /\ st'.phase = "done"
                  /\ pc' = "END"]_vars

\* C10: when a repair reply holds no extractable document the turn moves to
\* done with the flow it held before the attempt, and the reply is not added
\* to messages.
C10_RepairWithoutDocument ==
    [][(/\ pc = "validate_flow" /\ trail' # trail /\ ObjectFlow(st)
        /\ trail'[Len(trail')].reply \in {"no document", "extractor raised"})
          => /\ st'.phase = "done"
             /\ pc' = "END"
             /\ st'.flow_json = st.flow_json
             /\ st'.messages = st.messages]_vars

(***************************************************************************)
(* The graph invoked again on the state a caller holds, with no new user   *)
(* message: create_agent().invoke(state).  chat is the entry point         *)
(* whatever the phase, so the run starts with a conversation call.         *)
(***************************************************************************)

RerunBegin ==
    /\ frontEnd = "run_agent"
    /\ StartTurn
    /\ st' = InputState(session.messages, session.requirements,
                        session.flow_json, session.phase, session.turn_count)
    /\ UNCHANGED <<session, msgCache>>

NextRerun == Next \/ RerunBegin

SpecRerun == Init /\ [][NextRerun]_vars

\* the run in progress was started without a new user message
NoNewUserMessage ==
    /\ pc # "idle"
    /\ \/ Len(st.messages) = Len(pre.messages)
       \/ st.messages[Len(pre.messages) + 1].role = "assistant"

\* C11: re-running the graph on a session in phase done with a valid flow and
\* no new user message leaves phase and flow as they were.
C11_RerunIsNoOp ==
    (/\ TurnEnded /\ NoNewUserMessage /\ ObjectFlow(st)
     /\ pre.phase = "done" /\ pre.flow_json # NoFlow
     /\ validate_flow(pre.flow_json) = Returns(<<>>))
        => (st.phase = pre.phase /\ st.flow_json = pre.flow_json)

\* the assistant messages of a history
Visible(messages) == SelectSeq(messages, LAMBDA m : m.role = "assistant")

\* C12: no assistant message of the graph state, of the session the caller
\* holds or of the API's history contains a fenced ```json block.
C12_NoRawBlocks ==
    \A m \in {Visible(st.messages)[k] : k \in DOMAIN Visible(st.messages)}
         \cup {Visible(View.messages)[k] : k \in DOMAIN Visible(View.messages)} :
       m.content.blocks = <<>>

(***************************************************************************)
(* agent.invoke as a function of the input state and of the responses the  *)
(* completion service gives to its calls, in call order: the nodes run one *)
(* after the other from the entry point, each followed by its routing      *)
(* function.  A call beyond the responses given fails.                     *)
(***************************************************************************)

\* the node of that name, and the routing function that follows it
NodeOut(node, state, response) ==
    IF node = "chat" THEN chat_node(state, response)
    ELSE IF node = "generate_flow" THEN generate_flow_node(state, response)
    ELSE validate_flow_node(state, response)

RouteAfter(node, state) ==
    IF node = "chat" THEN route_after_chat(state)
    ELSE IF node = "generate_flow" THEN route_after_generate(state)
    ELSE route_after_validate(state)

\* (the set of one element binds `out` to the value the node returned)
RECURSIVE InvokeFrom(_, _, _, _, _)
InvokeFrom(node, state, heard, i, path) ==
    IF node = "END" THEN [raised |-> "none", state |-> state, path |-> path]
    ELSE
      CHOOSE result \in
        { IF out.raised # "none"
          THEN [raised |-> out.raised, state |-> state, path |-> Append(path, node)]
          ELSE InvokeFrom(RouteAfter(node, out.state), out.state, heard,
                          IF out.called THEN i + 1 ELSE i, Append(path, node))
          : out \in {NodeOut(node, state, IF i <= Len(heard) THEN heard[i] ELSE CallFailure)} }
        : TRUE

invoke(state, heard) == InvokeFrom("chat", state, heard, 1, <<>>)

(***************************************************************************)
(* Two sessions of the API, their requests interleaved step by step.  The  *)
(* variables hold one value per session id: session the sessions table,    *)
(* msgCache the dict _msg_cache (its domain the ids cached), st, pc, exc,   *)
(* calls, trail, last and turns the request in progress on each session    *)
(* (last[s] also tells whether the request that ended overlapped one on    *)
(* another session).                                                       *)
(* pre[s] is what session s would hold had its requests run alone: it is   *)
(* computed from the session's own requests and the responses they heard,  *)
(* never read from the table or the cache.                                 *)
(***************************************************************************)

SessionIds == {"s1", "s2"}
PairTurns == 1
PairResponses ==
    { Reply("your bot", TRUE, <<>>, Bullets),
      Reply("", FALSE, <<RawText(DocNoPosition)>>, <<>>),
      CallFailure }

\* the key of a session's entry in _msg_cache
CacheKey_Shared(s) == "all"

CacheKey(s) == s

CacheOf(cache, s) ==
    IF CacheKey(s) \in DOMAIN cache THEN Cached(cache[CacheKey(s)]) ELSE NoCache
CachePut(cache, s, msgs) ==
    [k \in DOMAIN cache \cup {CacheKey(s)} |-> IF k = CacheKey(s) THEN msgs ELSE cache[k]]
CachePop(cache, s) == [k \in DOMAIN cache \ {CacheKey(s)} |-> cache[k]]

Held(row, cache) == [row |-> row, cache |-> cache]

\* api.chat on a session alone, given the responses its calls get
AloneChatEnd(held, messages, result) ==
    IF result.raised # "none" THEN Held(held.row, Cached(messages))
    ELSE Held(update_session(
                update_session(held.row, NotGiven, NotGiven, NotGiven, NotGiven,
                               Given(_serialize_messages(result.state.messages))),
                Given(result.state.phase), Given(result.state.turn_count),
                Given(result.state.requirements), OptFlow(result.state.flow_json),
                NotGiven),
              Cached(result.state.messages))

AloneChat(held, heard) ==
    CHOOSE after \in
      { AloneChatEnd(held, messages,
                     invoke(InputState(messages, held.row.requirements, held.row.flow_json,
                                       held.row.phase, held.row.turn_count), heard))
        : messages \in {Append(_load_messages(held.cache, held.row), UserMessage)} }
      : TRUE

\* api.reset_session on a session alone
AloneReset(held) ==
    Held(update_session(held.row, Given("chat"), Given(0), Given(<<>>), NotGiven, Given(<<>>)),
         NoCache)

\* the responses heard by the calls of a request
HeardIn(steps) ==
    LET called == SelectSeq(steps, LAMBDA e : e.reply # "no call")
    IN [k \in DOMAIN called |-> called[k].response]

InitPair ==
    /\ frontEnd = "api"
    /\ session = [s \in SessionIds |-> EmptySession]
    /\ msgCache = <<>>
    /\ st = [s \in SessionIds |-> EmptySession]
    /\ pc = [s \in SessionIds |-> "idle"]
    /\ exc = [s \in SessionIds |-> "none"]
    /\ calls = [s \in SessionIds |-> 0]
    /\ trail = [s \in SessionIds |-> <<>>]
    /\ pre = [s \in SessionIds |-> Held(EmptySession, NoCache)]
    /\ last = [s \in SessionIds |-> "init"]
    /\ turns = [s \in SessionIds |-> 0]

\* api.chat up to agent.invoke
PairChatBegin(s) ==
    /\ pc[s] = "idle"
    /\ turns[s] < PairTurns
    /\ msgCache' = CachePut(msgCache, s,
                     Append(_load_messages(CacheOf(msgCache, s), session[s]), UserMessage))
    /\ st' = [st EXCEPT ![s] = InputState(msgCache'[CacheKey(s)], session[s].requirements,
                                          session[s].flow_json, session[s].phase,
                                          session[s].turn_count)]
    /\ pc' = [pc EXCEPT ![s] = "chat"]
    /\ exc' = [exc EXCEPT ![s] = "none"]
    /\ calls' = [calls EXCEPT ![s] = 0]
    /\ trail' = [trail EXCEPT ![s] = <<>>]
    /\ turns' = [turns EXCEPT ![s] = @ + 1]
    /\ UNCHANGED <<frontEnd, session, pre, last>>

\* one node of agent.invoke
PairNode(s) ==
    /\ pc[s] \in {"chat", "generate_flow", "validate_flow"}
    /\ \E response \in PairResponses :
         LET out == NodeOut(pc[s], st[s], response)
             next == RouteAfter(pc[s], out.state)
         IN /\ st' = [st EXCEPT ![s] = out.state]
            /\ trail' = [trail EXCEPT ![s] =
                           Append(@, [node |-> pc[s], reply |-> Brought(out, response),
                                      response |-> Heard(out, response)])]
            /\ exc' = [exc EXCEPT ![s] = out.raised]
            /\ pc' = [pc EXCEPT ![s] = IF out.raised # "none" THEN "raised" ELSE next]
            /\ calls' = [calls EXCEPT ![s] = @ + (IF out.called THEN 1 ELSE 0)]
    /\ UNCHANGED <<frontEnd, session, msgCache, pre, last, turns>>

\* a request on another session is in progress, between two of its nodes
Overlapped(s) ==
    \E t \in SessionIds \ {s} :
       pc[t] \in {"generate_flow", "validate_flow"} /\ trail[t] # <<>>

\* api.chat after agent.invoke: _save_messages, db.update_session
PairChatEnd(s) ==
    /\ pc[s] = "END"
    /\ msgCache' = CachePut(msgCache, s, st[s].messages)
    /\ session' = [session EXCEPT ![s] =
         update_session(
            update_session(@, NotGiven, NotGiven, NotGiven, NotGiven,
                           Given(_serialize_messages(st[s].messages))),
            Given(st[s].phase), Given(st[s].turn_count), Given(st[s].requirements),
            OptFlow(st[s].flow_json), NotGiven)]
    /\ pc' = [pc EXCEPT ![s] = "idle"]
    /\ last' = [last EXCEPT ![s] = IF Overlapped(s) THEN "turn, overlapped" ELSE "turn"]
    /\ pre' = [pre EXCEPT ![s] = AloneChat(@, HeardIn(trail[s]))]
    /\ UNCHANGED <<frontEnd, st, exc, calls, trail, turns>>

\* the exception leaves api.chat
PairPropagate(s) ==
    /\ pc[s] = "raised"
    /\ pc' = [pc EXCEPT ![s] = "idle"]
    /\ last' = [last EXCEPT ![s] = "failed"]
    /\ pre' = [pre EXCEPT ![s] = AloneChat(@, HeardIn(trail[s]))]
    /\ UNCHANGED <<frontEnd, session, msgCache, st, exc, calls, trail, turns>>

\* api.reset_session
PairReset(s) ==
    /\ pc[s] = "idle"
    /\ last[s] \notin {"init", "reset"}
    /\ session' = [session EXCEPT ![s] =
         update_session(@, Given("chat"), Given(0), Given(<<>>), NotGiven, Given(<<>>))]
    /\ msgCache' = CachePop(msgCache, s)
    /\ last' = [last EXCEPT ![s] = "reset"]
    /\ pre' = [pre EXCEPT ![s] = AloneReset(@)]
    /\ UNCHANGED <<frontEnd, st, pc, exc, calls, trail, turns>>

NextPair ==
    \E s \in SessionIds :
       \/ PairChatBegin(s) \/ PairNode(s) \/ PairChatEnd(s)
       \/ PairPropagate(s) \/ PairReset(s)

SpecPair == InitPair /\ [][NextPair]_vars

\* C13: however the steps of requests on two distinct sessions interleave,
\* each session, whenever no request on it is in progress, holds (in its row
\* and in its cache entry) the value it would hold had its requests run alone.
C13_AsIfAlone ==
    \A s \in SessionIds :
       pc[s] = "idle" => Held(session[s], CacheOf(msgCache, s)) = pre[s]

\* both sessions have completed a request of two nodes or more, the one on s1
\* having ended while the one on s2 was between two of its nodes, and hold
\* different values
C13_Witness ==
    /\ \A s \in SessionIds : pc[s] = "idle" /\ Len(trail[s]) >= 2
    /\ last["s1"] = "turn, overlapped" /\ last["s2"] = "turn"
    /\ session["s1"] # session["s2"]

(***************************************************************************)
(* The steps of the graph, one by one.                                     *)
(***************************************************************************)

\* the step taken is the node `node`, run in phase `phase`
Stepped(node, phase) == pc = node /\ st.phase = phase /\ trail' # trail
\* what the step's call brought, and the response it heard
StepReply == trail'[Len(trail')].reply
StepResponse == trail'[Len(trail')].response

\* C14 (as stated): in phase chat, a reply that contains an extractable
\* document moves the session from chat to done.
C14_ChatDocumentToDone ==
    [][(Stepped("chat", "chat") /\ StepReply = "document") => st'.phase = "done"]_vars

\* C14 (amended): in phase chat, a reply that contains an extractable document
\* makes the conversation step store the document as flow and move to
\* validating, and the validation step runs next in the same turn.
C14_ChatDocumentToValidating ==
    [][(Stepped("chat", "chat") /\ StepReply = "document")
          => /\ st'.phase = "validating"
             /\ st'.flow_json = _extract_flow_json(StepResponse).flow
             /\ pc' = "validate_flow"]_vars

C14_Witness ==
    /\ pc = "validate_flow" /\ Len(trail) = 1 /\ trail[1].reply = "document"
    /\ pre.phase = "chat" /\ st.phase = "validating" /\ ObjectFlow(st)

\* C15: in phase chat, a reply with a bot-intent keyword and no extractable
\* document makes the phase generating and a generation attempt follows in the
\* same turn; a reply with neither leaves the phase chat and the turn ends
\* after the single conversation call.
C15_ChatKeywordToGenerating ==
    [][(Stepped("chat", "chat") /\ StepReply \in {"no document", "extractor raised"})
          => IF StepResponse.kw
             THEN st'.phase = "generating" /\ pc' = "generate_flow"
             ELSE st'.phase = "chat" /\ pc' = "END" /\ calls' = 1]_vars

\* C16: a generation attempt whose reply holds an extractable document stores
\* it as flow and moves to validating; one whose reply holds none moves the
\* phase to chat, leaves flow unchanged and ends the turn normally.
C16_GenerationStep ==
    [][(pc = "generate_flow" /\ trail' # trail /\ StepReply # "call failed")
          => IF StepReply = "document"
             THEN /\ st'.flow_json = _extract_flow_json(StepResponse).flow
                  /\ st'.phase = "validating" /\ pc' = "validate_flow"
             ELSE /\ st'.phase = "chat" /\ st'.flow_json = st.flow_json
                  /\ pc' = "END" /\ exc' = "none"]_vars

\* the replies to the calls of one turn (a turn makes four calls at the most)
Scripts(n) == [1 .. n -> Replies]

\* C17: for the same replies, a turn started in phase done runs the same nodes
\* and ends with the same phase and flow as the same turn started in chat.
C17_DoneAsChat ==
    (pc = "chat" /\ trail = <<>> /\ st.phase = "done")
        => \A heard \in Scripts(MAX_VALIDATION_RETRIES + 2) :
              LET inDone == invoke(st, heard)
                  inChat == invoke([st EXCEPT !.phase = "chat"], heard)
              IN /\ inDone.path = inChat.path
                 /\ inDone.raised = inChat.raised
                 /\ inDone.state.phase = inChat.state.phase
                 /\ inDone.state.flow_json = inChat.state.flow_json

UserMessages(messages) == SelectSeq(messages, LAMBDA m : m.role = "user")

\* C18: each processed user message adds exactly one to turnCount, whatever
\* phase the turn starts in and whatever nodes it runs; a caller of run_agent
\* holds, after n messages, a turnCount of n.
C18_OncePerMessage ==
    /\ (pc \notin {"idle", "chat"} /\ trail[1].reply \notin {"call failed", "extractor raised"})
          => st.turn_count = pre.turn_count + 1
    /\ (pc = "idle" /\ last = "turn" /\ frontEnd # "generate")
          => session.turn_count = pre.turn_count + 1
    /\ (pc = "idle" /\ frontEnd = "run_agent")
          => session.turn_count = Len(UserMessages(session.messages))

\* the second turn of a session has run a generation attempt and two repairs
C18_Witness ==
    /\ TurnEnded /\ calls = 2 + MAX_VALIDATION_RETRIES
    /\ pre.turn_count = 1 /\ st.turn_count = 2

IsPrefix(p, q) == Len(p) <= Len(q) /\ \A k \in DOMAIN p : p[k] = q[k]
NoRepeat(q) == \A j, k \in DOMAIN q : q[j] = q[k] => j = k

\* C19: with no reset, the requirements at any point of a turn, and those the
\* caller holds after it, have the requirements at its start as a prefix; and
\* no string occurs twice.
C19_RequirementsGrow ==
    /\ pc # "idle" => IsPrefix(pre.requirements, st.requirements)
    /\ (pc = "idle" /\ last \in {"turn", "failed"} /\ frontEnd # "generate")
          => IsPrefix(pre.requirements, session.requirements)
    /\ NoRepeat(st.requirements)
    /\ NoRepeat(session.requirements)

\* a turn that began with a requirement held has heard a reply that repeats
\* it and brings a new one twice
C19_Witness ==
    /\ TurnEnded /\ pre.requirements # <<>>
    /\ trail[1].response.lines = MoreBullets
    /\ Len(st.requirements) = Len(pre.requirements) + 1

\* C20: requirement extraction adds the text of every bullet-prefixed line of
\* the reply that is not already held, and discards a line only when it is a
\* duplicate or its text is above 200 characters: after the conversation step
\* the text of every bullet line of at most 200 characters is held.
C20_KeepsEveryBullet ==
    [][(pc = "chat" /\ trail' # trail /\ StepReply \in {"document", "no document"})
          => \A k \in DOMAIN StepResponse.lines :
                (StepResponse.lines[k].bullet /\ StepResponse.lines[k].rlen <= 200)
                   => \E j \in DOMAIN st'.requirements :
                         st'.requirements[j] = StepResponse.lines[k].req]_vars

\* the message a turn begins with: the user's, or the prompt /generate builds
NewMessage == IF frontEnd = "generate" THEN GeneratePrompt ELSE UserMessage

\* C21: messages is append-only within a turn: at every point of a turn the
\* sequence is the sequence at the start of the turn, then the new user
\* message, then assistant entries only; at the end of the turn there is at
\* least one such entry.
C21_MessagesAppendOnly ==
    pc # "idle" =>
        LET base == Append(pre.messages, NewMessage) IN
        /\ IsPrefix(base, st.messages)
        /\ \A k \in DOMAIN st.messages : k > Len(base) => st.messages[k].role = "assistant"
        /\ (TurnEnded => Len(st.messages) > Len(base))

\* a turn on a session that holds messages ends with two assistant entries
\* added (conversation and generation)
C21_Witness ==
    /\ TurnEnded /\ pre.messages # <<>>
    /\ Len(st.messages) = Len(pre.messages) + 3

\* the replies the nodes of the turn heard to their calls
HeardReplies == {trail[k].response : k \in {j \in DOMAIN trail : trail[j].reply \notin {"no call", "call failed"}}}

\* the shape check as the specification words it: an object with a nodes
\* member and an edges member
IsGraphObject(val) == val.kind = "object" /\ val.nodes.tag # "absent" /\ val.edges.tag # "absent"

\* the first block, in text order, that parses to such an object
RECURSIVE FirstGraphObject(_, _)
FirstGraphObject(blocks, i) ==
    IF i > Len(blocks) THEN NoFlow
    ELSE IF blocks[i].ok /\ IsGraphObject(blocks[i].val) THEN json_dumps(blocks[i].val)
    ELSE FirstGraphObject(blocks, i + 1)

\* no block of the reply is an array or a string
NoArrayOrString(response) ==
    \A i \in DOMAIN response.blocks : response.blocks[i].val.kind \notin {"array", "string"}

\* C22: of every reply a node hears, the extractor returns the first fenced
\* block that parses and passes the shape check; earlier blocks that are
\* malformed or fail the check (object, number, boolean, null) are skipped
\* without raising, and when no block qualifies the result is None.  (Stated
\* of replies without array or string blocks, whose acceptance is C23's.)
C22_FirstQualifyingBlock ==
    \A response \in HeardReplies :
        NoArrayOrString(response)
           => /\ _extract_flow_json(response).raised = "none"
              /\ _extract_flow_json(response).flow = FirstGraphObject(response.blocks, 1)

\* C23: the extractor returns a block only if it parses to an object with a
\* nodes member and an edges member.
C23_OnlyGraphObjects ==
    \A response \in HeardReplies :
        (_extract_flow_json(response).raised = "none" /\ _extract_flow_json(response).flow # NoFlow)
           => IsGraphObject(_extract_flow_json(response).flow.val)

(***************************************************************************)
(* validate_flow on its own: called with a text, it returns its defect     *)
(* list or raises.  The variables are used as follows: frontEnd is         *)
(* "validator", session the text passed as flow_json, pc "called" until    *)
(* the function has run and "returned" or "raised" after it, st its result *)
(* [raised, errors], exc the exception that left it; the others stay as    *)
(* they start.  The texts are the documents over two pools of nodes and    *)
(* edges, the documents lacking a member, and texts that are no object.    *)
(***************************************************************************)

MaxNodes == 2
MaxEdges == 2

\* a node with the id of HelloNode and no type; a trigger node without id
HelloNoType == Node("hello", NoneV, DataAbsent, TRUE)
TriggerNoId == Node(NoneV, "CommandTriggerNode", DataObj({<<"command", "value">>}), TRUE)

NodePool == {StartNode, HelloNode, HelloNoPosition, LoneIf, HelloNoType, TriggerNoId, NotANode}

\* an edge with the id of StartToHello; an edge with a handle of the source's
\* vocabulary; an edge without id whose source is no node; an edge without target
StartToCond == Edge("e1", "start", "cond", NoneV)
CondToStart == Edge("e2", "cond", "start", "true")
GhostToHello == Edge(NoneV, "ghost", "hello", NoneV)
GhostToNone == Edge("e3", "ghost", NoneV, NoneV)
NotAnEdge == [isobj |-> FALSE, id |-> NoneV, source |-> NoneV, target |-> NoneV, sourceHandle |-> NoneV]

EdgePool == {StartToHello, StartToCond, CondToStart, GhostToHello, GhostToNone, NotAnEdge}

SeqsUpTo(S, n) == UNION {[1 .. k -> S] : k \in 0 .. n}

\* the values of flow.get("nodes") and flow.get("edges")
Members(S, n) == {Absent, Other} \cup {List(items) : items \in SeqsUpTo(S, n)}

FlowTexts ==
    {RawText(JObject(nodes, edges)) :
        nodes \in Members(NodePool, MaxNodes), edges \in Members(EdgePool, MaxEdges)}
    \cup {Malformed, RawText(JNumber), RawText(JNull), RawText(StrNodesEdges),
          RawText(JArray({"nodes", "edges"}))}

NoResult == [raised |-> "none", errors |-> <<>>]

InitValidate ==
    /\ frontEnd = "validator"
    /\ session \in FlowTexts
    /\ msgCache = NoCache
    /\ st = NoResult
    /\ pc = "called"
    /\ exc = "none"
    /\ calls = 0
    /\ trail = <<>>
    /\ pre = NoResult
    /\ last = "init"
    /\ turns = 0

\* errors = validate_flow(flow_json)
ValidateFlow ==
    /\ pc = "called"
    /\ st' = validate_flow(session)
    /\ exc' = st'.raised
    /\ pc' = IF st'.raised # "none" THEN "raised" ELSE "returned"
    /\ last' = "validate_flow"
    /\ UNCHANGED <<frontEnd, session, msgCache, calls, trail, pre, turns>>

NextValidate == ValidateFlow

SpecValidate == InitValidate /\ [][NextValidate]_vars

\* the document of the text, its nodes and edges (empty when not a list)
Flow == session.val
FlowNodes == Flow.nodes.items
FlowEdges == Flow.edges.items
IsDocument == session.ok /\ Flow.kind = "object" /\ Flow.nodes.tag = "list" /\ Flow.edges.tag = "list"

\* the defects of a code, of a code and a subject, in the list returned
DefectsOf(code) == {k \in DOMAIN st.errors : st.errors[k].code = code}
DefectsAbout(code, subj) == {k \in DefectsOf(code) : st.errors[k].subj = subj}

\* the words of the soundness property: nodes non-empty; every node has a
\* unique id, a type of the catalogue, a position and all required fields of
\* its type non-empty; at least one trigger node; every edge has source and
\* target among the node ids, a unique id and, from a conditional source, a
\* handle of that type's vocabulary; every conditional and trigger node has an
\* outgoing edge
StructurallyValid ==
    /\ IsDocument
    /\ FlowNodes # <<>>
    /\ \A i \in DOMAIN FlowNodes :
          LET node == FlowNodes[i] IN
          /\ node.isobj /\ Truthy(node.id) /\ node.id # UnhashableV
          /\ \A j \in DOMAIN FlowNodes : FlowNodes[j].id = node.id => j = i
          /\ node.type \in ALL_NODE_TYPES
          /\ node.position
          /\ node.type \in DOMAIN REQUIRED_FIELDS =>
                /\ node.data.tag = "object"
                /\ \A k \in DOMAIN REQUIRED_FIELDS[node.type] :
                      ~FieldMissing(node.data, REQUIRED_FIELDS[node.type][k])
          /\ node.type \in (DOMAIN CONDITIONAL_HANDLES) \cup TRIGGER_TYPES =>
                \E e \in DOMAIN FlowEdges : FlowEdges[e].source = node.id
    /\ \E i \in DOMAIN FlowNodes : FlowNodes[i].type \in TRIGGER_TYPES
    /\ \A e \in DOMAIN FlowEdges :
          LET edge == FlowEdges[e] IN
          /\ edge.isobj /\ Truthy(edge.id) /\ edge.id # UnhashableV
          /\ \A f \in DOMAIN FlowEdges : FlowEdges[f].id = edge.id => f = e
          /\ \E i \in DOMAIN FlowNodes : FlowNodes[i].id = edge.source
          /\ \E i \in DOMAIN FlowNodes : FlowNodes[i].id = edge.target
          /\ \A i \in DOMAIN FlowNodes :
                (FlowNodes[i].id = edge.source /\ FlowNodes[i].type \in DOMAIN CONDITIONAL_HANDLES)
                   => edge.sourceHandle \in CONDITIONAL_HANDLES[FlowNodes[i].type]

\* C24: soundness on accept: for every structurally valid document
\* validate_flow returns an empty defect list.
C24_SoundOnAccept ==
    (pc # "called" /\ StructurallyValid) => (pc = "returned" /\ st.errors = <<>>)

\* a valid document with a conditional node and an edge on one of its handles
\* has been validated
C24_Witness ==
    /\ pc = "returned" /\ StructurallyValid
    /\ \E i \in DOMAIN FlowNodes : FlowNodes[i].type \in DOMAIN CONDITIONAL_HANDLES
    /\ \E e \in DOMAIN FlowEdges : Truthy(FlowEdges[e].sourceHandle)

\* C25: for every text in which nodes or edges is missing or is not a
\* sequence (texts that are no object among them), validate_flow returns a
\* list with at least one defect and does not raise.
C25_MissingMemberIsDefect ==
    (pc # "called" /\ ~IsDocument) => (pc = "returned" /\ Len(st.errors) >= 1)

\* a document without edges whose nodes hold an element that is no object
C25_Witness ==
    /\ pc = "returned" /\ session.ok /\ Flow.kind = "object"
    /\ Flow.edges.tag = "absent"
    /\ \E i \in DOMAIN FlowNodes : ~FlowNodes[i].isobj

\* an object in which nodes or edges is missing or is not a list
LacksMember == session.ok /\ Flow.kind = "object" /\ ~IsDocument

\* C26 (as stated): when nodes and/or edges is missing or not a sequence,
\* validate_flow halts with one defect per missing member: a document missing
\* both yields two defects, one naming nodes and one naming edges.
C26_DefectPerMissingMember ==
    (pc # "called" /\ LacksMember)
        => /\ pc = "returned"
           /\ Cardinality(DefectsAbout("Missing or invalid array", "nodes"))
                 = (IF Flow.nodes.tag # "list" THEN 1 ELSE 0)
           /\ Cardinality(DefectsAbout("Missing or invalid array", "edges"))
                 = (IF Flow.edges.tag # "list" THEN 1 ELSE 0)
           /\ Len(st.errors) = Cardinality(DefectsOf("Missing or invalid array"))

\* C26 (amended): when nodes and/or edges is missing or not a sequence,
\* validate_flow halts with exactly one defect, for the first member found
\* wrong: it names nodes when nodes is missing or no sequence (whatever edges
\* is), and names edges only when nodes is a sequence.
C26_DefectForFirstMissingMember ==
    (pc # "called" /\ LacksMember)
        => /\ pc = "returned"
           /\ st.errors = << Err("Missing or invalid array",
                                  IF Flow.nodes.tag # "list" THEN "nodes" ELSE "edges", "") >>

\* a document missing both members has been validated
C26_Witness ==
    /\ pc = "returned" /\ LacksMember
    /\ Flow.nodes.tag = "absent" /\ Flow.edges.tag = "absent"

\* the nodes of the document that carry the id; those of them that have a
\* type as well, which are the ones the node loop registers
NodesWithId(id) == {i \in DOMAIN FlowNodes : FlowNodes[i].isobj /\ FlowNodes[i].id = id}
Collected(id) == {i \in NodesWithId(id) : Truthy(FlowNodes[i].type)}
NodeIds == {FlowNodes[i].id : i \in {j \in DOMAIN FlowNodes : FlowNodes[j].isobj /\ Truthy(FlowNodes[j].id)}}

\* C27 (as stated): in the list validate_flow returns there is exactly one
\* duplicate-node-id defect for an id shared by two nodes and none for an id
\* used by a single node.
C27_OneDuplicatePerSharedId ==
    (pc = "returned" /\ IsDocument)
        => \A id \in NodeIds :
              /\ Cardinality(NodesWithId(id)) = 2
                    => Cardinality(DefectsAbout("duplicate node id", id)) = 1
              /\ Cardinality(NodesWithId(id)) = 1
                    => Cardinality(DefectsAbout("duplicate node id", id)) = 0

\* C27 (amended): the duplicate test is made among the nodes that have both
\* an id and a type (a node lacking its type is reported for that and not
\* registered): in the list validate_flow returns, an id carried by k >= 1
\* such nodes has exactly k - 1 duplicate-node-id defects (one when two nodes
\* carry it, none when one does), and an id carried by none of them has none.
C27_DuplicatesAmongCollected ==
    (pc = "returned" /\ IsDocument)
        => \A id \in NodeIds :
              Cardinality(DefectsAbout("duplicate node id", id))
                 = (IF Collected(id) = {} THEN 0 ELSE Cardinality(Collected(id)) - 1)

\* a document in which two nodes that have a type share an id has been validated
C27_Witness ==
    /\ pc = "returned" /\ IsDocument
    /\ \E id \in NodeIds :
          /\ Cardinality(Collected(id)) = 2
          /\ Cardinality(DefectsAbout("duplicate node id", id)) = 1

\* the nodes of a trigger type; those of them the node loop registers
TriggerNodes == {i \in DOMAIN FlowNodes : FlowNodes[i].isobj /\ FlowNodes[i].type \in TRIGGER_TYPES}
CollectedTriggers == {i \in TriggerNodes : Truthy(FlowNodes[i].id)}

\* the only node of the document is of a conditional type and no edge leaves it
LoneConditional ==
    /\ IsDocument /\ Len(FlowNodes) = 1
    /\ FlowNodes[1].isobj /\ Truthy(FlowNodes[1].id)
    /\ FlowNodes[1].type \in DOMAIN CONDITIONAL_HANDLES
    /\ \A e \in DOMAIN FlowEdges : FlowEdges[e].source # FlowNodes[1].id

BothLoneConditionalDefects ==
    /\ Cardinality(DefectsOf("no trigger node")) = 1
    /\ Cardinality(DefectsAbout("conditional node has no outgoing edges", FlowNodes[1].id)) = 1

\* C28 (as stated): the list validate_flow returns holds exactly one "no
\* trigger node" defect if and only if no node of a non-empty nodes sequence
\* is of a trigger type (and none otherwise); a document whose only node is
\* of a conditional type with no outgoing edge gets both that defect and the
\* "conditional node has no outgoing edges" defect.
C28_NoEntryPointIffNoTriggerNode ==
    (pc = "returned" /\ session.ok /\ Flow.kind = "object" /\ Flow.nodes.tag = "list")
        => /\ Cardinality(DefectsOf("no trigger node"))
                 = (IF FlowNodes # <<>> /\ TriggerNodes = {} THEN 1 ELSE 0)
           /\ LoneConditional => BothLoneConditionalDefects

\* C28 (amended): when nodes and edges are sequences and nodes is not empty,
\* the list validate_flow returns holds exactly one "no trigger node" defect
\* if and only if no node that has both an id and a type is of a trigger type
\* (a trigger node without id is reported for that and does not count); when
\* validate_flow halts on the shape of the document it holds none.  A
\* document whose only node is of a conditional type with no outgoing edge
\* gets both that defect and the "conditional node has no outgoing edges"
\* defect.
C28_NoEntryPointIffNoCollectedTrigger ==
    pc = "returned"
        => /\ Cardinality(DefectsOf("no trigger node"))
                 = (IF IsDocument /\ FlowNodes # <<>> /\ CollectedTriggers = {} THEN 1 ELSE 0)
           /\ LoneConditional => BothLoneConditionalDefects

\* the lone conditional node, with edges that leave other ids, has been validated
C28_Witness ==
    /\ pc = "returned" /\ LoneConditional /\ FlowEdges # <<>>
    /\ BothLoneConditionalDefects

\* the ids the node loop registers: those of nodes with an id and a type
CollectedIds == {id \in NodeIds : Collected(id) # {}}

\* every element of nodes and edges is an object whose id, type, source,
\* target and sourceHandle are strings or missing
AllObjects ==
    /\ \A i \in DOMAIN FlowNodes :
          FlowNodes[i].isobj /\ UnhashableV \notin {FlowNodes[i].id, FlowNodes[i].type}
    /\ \A e \in DOMAIN FlowEdges :
          /\ FlowEdges[e].isobj
          /\ UnhashableV \notin {FlowEdges[e].id, FlowEdges[e].source, FlowEdges[e].target,
                                  FlowEdges[e].sourceHandle}

Reported(defect) == \E k \in DOMAIN st.errors : st.errors[k] = defect
DanglingSource(e) ==
    Err("source does not exist", EdgeLabel(FlowEdges[e], e), FlowEdges[e].source)
DanglingTarget(e) ==
    Err("target does not exist", EdgeLabel(FlowEdges[e], e), FlowEdges[e].target)
HasSourceAndTarget(e) == Truthy(FlowEdges[e].source) /\ Truthy(FlowEdges[e].target)

\* C29 (as stated): for every edge whose source (target) is the id of no
\* node of the document, validate_flow reports a dangling-source
\* (dangling-target) defect for that edge and goes on without raising; an
\* edge whose source and target both are ids of nodes gets no such defect.
\* (Of documents whose elements are all objects.)
C29_DanglingReported ==
    (pc # "called" /\ IsDocument /\ AllObjects)
        => /\ pc = "returned"
           /\ \A e \in DOMAIN FlowEdges :
                 /\ (Truthy(FlowEdges[e].source) /\ FlowEdges[e].source \notin NodeIds)
                       => Reported(DanglingSource(e))
                 /\ (Truthy(FlowEdges[e].target) /\ FlowEdges[e].target \notin NodeIds)
                       => Reported(DanglingTarget(e))
                 /\ (FlowEdges[e].source \in NodeIds /\ FlowEdges[e].target \in NodeIds)
                       => ~Reported(DanglingSource(e)) /\ ~Reported(DanglingTarget(e))

\* C29 (amended): when nodes is not empty, an edge that has both a source
\* and a target gets a dangling-source (dangling-target) defect if and only
\* if its source (target) is not the id of a node that has an id and a type;
\* an edge lacking its source or its target gets the "missing source or
\* target" defect and no dangling defect: the list holds one dangling defect
\* per dangling reference of an edge with both ends and no other (a defect
\* names the edge by its id, which edges may share, hence the counts).  Later
\* edges and the closing rules are checked, and
\* validate_flow raises only on a document with an element that is no object
\* or an id that is no string.
C29_DanglingAmongCollected ==
    /\ (pc # "called" /\ IsDocument /\ AllObjects) => pc = "returned"
    /\ (pc = "returned" /\ IsDocument /\ FlowNodes # <<>>)
          => /\ \A e \in DOMAIN FlowEdges :
                   IF HasSourceAndTarget(e)
                   THEN /\ Reported(DanglingSource(e)) <=> FlowEdges[e].source \notin CollectedIds
                        /\ Reported(DanglingTarget(e)) <=> FlowEdges[e].target \notin CollectedIds
                   ELSE Reported(Err("edge missing source or target", Idx(e), ""))
             /\ Cardinality(DefectsOf("source does not exist"))
                   = Cardinality({e \in DOMAIN FlowEdges :
                        HasSourceAndTarget(e) /\ FlowEdges[e].source \notin CollectedIds})
             /\ Cardinality(DefectsOf("target does not exist"))
                   = Cardinality({e \in DOMAIN FlowEdges :
                        HasSourceAndTarget(e) /\ FlowEdges[e].target \notin CollectedIds})

\* an edge with a dangling source and a dangling target, then an edge whose
\* two ends resolve, then the defect of a conditional node without outgoing edge
C29_Witness ==
    /\ pc = "returned" /\ IsDocument /\ Len(FlowEdges) = 2
    /\ Reported(DanglingSource(1)) /\ Reported(DanglingTarget(1))
    /\ HasSourceAndTarget(2)
    /\ FlowEdges[2].source \in CollectedIds /\ FlowEdges[2].target \in CollectedIds
    /\ DefectsOf("conditional node has no outgoing edges") # {}

\* the rules a defect comes from
ShapeDefects == {"Invalid JSON", "Flow must be a JSON object", "Missing or invalid array",
                 "Flow has no nodes"}
PerNodeDefects == {"node has no id", "node has no type", "duplicate node id", "unknown type",
                   "missing required field", "missing position"}
PerEdgeDefects == {"edge missing source or target", "duplicate edge id", "source does not exist",
                   "target does not exist", "invalid sourceHandle"}
AggregateDefects == {"no trigger node", "conditional node has no outgoing edges",
                     "trigger node has no outgoing edges"}

\* the four groups in the order the specification names them
GroupOf(code) ==
    IF code \in ShapeDefects THEN 1
    ELSE IF code \in PerNodeDefects THEN 2
    ELSE IF code \in PerEdgeDefects THEN 3
    ELSE 4

\* the places of the code where the defects are appended, in text order
PlaceOf(code) ==
    IF code \in ShapeDefects THEN 1
    ELSE IF code \in PerNodeDefects THEN 2
    ELSE IF code = "no trigger node" THEN 3
    ELSE IF code \in PerEdgeDefects THEN 4
    ELSE IF code = "conditional node has no outgoing edges" THEN 5
    ELSE 6

\* C30 (as stated): the list validate_flow returns has the top-level shape
\* defects first, then all per-node defects, then all per-edge defects, then
\* the aggregate defects: no aggregate defect precedes a per-edge defect.
C30_AggregateAfterEdges ==
    pc = "returned"
        => \A j, k \in DOMAIN st.errors :
              j < k => GroupOf(st.errors[j].code) <= GroupOf(st.errors[k].code)

\* C30 (amended): the list validate_flow returns is in the order of the
\* rules: shape defects, then the per-node defects, then the "no trigger
\* node" defect, then the per-edge defects, then the "conditional node has
\* no outgoing edges" defects, then the "trigger node has no outgoing edges"
\* defects; every defect is of one of these kinds.
C30_DiscoveryOrder ==
    pc = "returned"
        => /\ \A k \in DOMAIN st.errors :
                 st.errors[k].code \in ShapeDefects \cup PerNodeDefects \cup PerEdgeDefects
                                          \cup AggregateDefects
           /\ \A j, k \in DOMAIN st.errors :
                 j < k => PlaceOf(st.errors[j].code) <= PlaceOf(st.errors[k].code)

\* a list with a per-node defect, the "no trigger node" defect, a per-edge
\* defect and a closing defect
C30_Witness ==
    /\ pc = "returned"
    /\ \E h, i, j, k \in DOMAIN st.errors :
          /\ h < i /\ i < j /\ j < k
          /\ st.errors[h].code \in PerNodeDefects
          /\ st.errors[i].code = "no trigger node"
          /\ st.errors[j].code \in PerEdgeDefects
          /\ st.errors[k].code = "conditional node has no outgoing edges"

(***************************************************************************)
(* validate_flow on documents that vary one kind of element: the data of   *)
(* nodes whose type has required fields (with no edges), or the edges      *)
(* between three fixed nodes.  The variables are used as in SpecValidate.  *)
(***************************************************************************)

\* a data member that is a string, a number or a list
DataOther == [tag |-> "other", fields |-> {}]

\* a required field of a data object: null, the empty string, anything else
FieldValues == {"null", "empty", "value"}

\* the data objects over the required fields of a type: each field missing
\* or present with one of the values
DataObjects(type) ==
    LET fields == REQUIRED_FIELDS[type] IN
    {DataObj({<<fields[k], v[k]>> : k \in S}) :
        S \in SUBSET DOMAIN fields, v \in [DOMAIN fields -> FieldValues]}

DataValues(type) == {DataAbsent, DataNull, DataOther} \cup DataObjects(type)

FieldNodes ==
    {Node("start", "CommandTriggerNode", data, TRUE) : data \in DataValues("CommandTriggerNode")}
    \cup {Node("loc", "SendLocationNode", data, TRUE) : data \in DataValues("SendLocationNode")}

\* a node with the id of LoneIf and another type; nodes whose id or type is a list
CondAsText == Node("cond", "SendTextMessageNode", DataObj({<<"messageText", "value">>}), TRUE)
ListAsId == Node(UnhashableV, "SendTextMessageNode", DataObj({<<"messageText", "value">>}), TRUE)
ListAsType == Node("hello", UnhashableV, DataAbsent, TRUE)

ElementNodePool == FieldNodes \cup {LoneIf, CondAsText, ListAsId, ListAsType, NotANode}

FixedNodes == <<StartNode, LoneIf, HelloNode>>

\* edges from the trigger, the conditional node or no node; to a node or
\* without target; without handle, with the empty string as handle, with a
\* handle of IfConditionNode, with another, with a list; and edges with a list
\* as source, target or id
ElementEdgePool ==
    {Edge("e1", source, target, handle) :
        source \in {"start", "cond", "ghost"},
        target \in {"hello", NoneV},
        handle \in {NoneV, "", "true", "maybe", UnhashableV}}
    \cup {Edge("e1", UnhashableV, "hello", NoneV), Edge("e1", "start", UnhashableV, NoneV),
          Edge(UnhashableV, "start", "hello", NoneV), NotAnEdge}

\* documents of nodes from the pool without edges; documents of the fixed
\* nodes with edges from the pool
NodeTexts ==
    {RawText(JObject(List(nodes), List(<<>>))) :
        nodes \in SeqsUpTo(ElementNodePool, MaxNodes) \ {<<>>}}
EdgeTexts ==
    {RawText(JObject(List(FixedNodes), List(edges))) :
        edges \in SeqsUpTo(ElementEdgePool, MaxEdges)}

InitElements ==
    /\ frontEnd = "validator"
    /\ (session \in NodeTexts \/ session \in EdgeTexts)
    /\ msgCache = NoCache
    /\ st = NoResult
    /\ pc = "called"
    /\ exc = "none"
    /\ calls = 0
    /\ trail = <<>>
    /\ pre = NoResult
    /\ last = "init"
    /\ turns = 0

SpecElements == InitElements /\ [][NextValidate]_vars

\* the required fields of a type
FieldsOf(type) ==
    IF type \in DOMAIN REQUIRED_FIELDS
    THEN {REQUIRED_FIELDS[type][k] : k \in DOMAIN REQUIRED_FIELDS[type]} ELSE {}

\* the node has no non-empty value for the field: its data is absent, null,
\* no object, or an object in which the field is missing, null or ""
LacksField(node, field) == node.data.tag # "object" \/ FieldMissing(node.data, field)

\* C31: for every node that has an id and a type with a required-fields
\* rule, whatever its data member is (absent, null, not an object, an
\* object), the list validate_flow returns holds one defect for each required
\* field that is missing, null or the empty string and none for a required
\* field with a non-empty value.
C31_DefectPerMissingField ==
    (pc = "returned" /\ IsDocument)
        => \A id \in CollectedIds :
              \A i \in Collected(id) : \A field \in FieldsOf(FlowNodes[i].type) :
                 Cardinality({k \in DefectsAbout("missing required field", id) :
                                 st.errors[k].arg = field})
                    = Cardinality({j \in Collected(id) :
                         /\ field \in FieldsOf(FlowNodes[j].type)
                         /\ LacksField(FlowNodes[j], field)})

\* the type node_types holds for a collected id: that of the last node with
\* an id and a type that carries it
RegisteredType(id) ==
    FlowNodes[CHOOSE i \in Collected(id) : \A j \in Collected(id) : j <= i].type

\* the source of the edge is a collected node of a type with a vocabulary
\* and the handle of the edge is not of it
OutsideVocabulary(e) ==
    /\ FlowEdges[e].source \in CollectedIds
    /\ RegisteredType(FlowEdges[e].source) \in DOMAIN CONDITIONAL_HANDLES
    /\ FlowEdges[e].sourceHandle
          \notin CONDITIONAL_HANDLES[RegisteredType(FlowEdges[e].source)]

InvalidHandle(e) ==
    Err("invalid sourceHandle", EdgeLabel(FlowEdges[e], e), FlowEdges[e].sourceHandle)

\* C32 (as stated): for every edge whose source is a declared node of a type
\* with a handle vocabulary, the list validate_flow returns holds an
\* invalid-handle defect if and only if the edge has a sourceHandle outside
\* the vocabulary; other edges get none.
C32_InvalidHandleIffOutside ==
    (pc = "returned" /\ IsDocument /\ FlowNodes # <<>>)
        => /\ \A e \in DOMAIN FlowEdges :
                 (FlowEdges[e].sourceHandle # NoneV /\ OutsideVocabulary(e))
                    => Reported(InvalidHandle(e))
           /\ Cardinality(DefectsOf("invalid sourceHandle"))
                 = Cardinality({e \in DOMAIN FlowEdges :
                      FlowEdges[e].sourceHandle # NoneV /\ OutsideVocabulary(e)})

\* C32 (amended): among the edges that have both a source and a target, the
\* list validate_flow returns holds an invalid-handle defect for an edge if
\* and only if its source is a collected node whose registered type has a
\* vocabulary and its sourceHandle is a non-empty value outside it; an edge
\* lacking its target, or without sourceHandle, or from a node of another
\* type, gets none.
C32_InvalidHandleOfCheckedEdges ==
    (pc = "returned" /\ IsDocument /\ FlowNodes # <<>>)
        => /\ \A e \in DOMAIN FlowEdges :
                 (HasSourceAndTarget(e) /\ Truthy(FlowEdges[e].sourceHandle) /\ OutsideVocabulary(e))
                    => Reported(InvalidHandle(e))
           /\ Cardinality(DefectsOf("invalid sourceHandle"))
                 = Cardinality({e \in DOMAIN FlowEdges :
                      /\ HasSourceAndTarget(e) /\ Truthy(FlowEdges[e].sourceHandle)
                      /\ OutsideVocabulary(e)})

\* an edge from the conditional node with a handle outside its vocabulary and
\* one from it with a handle of the vocabulary have been checked
C32_Witness ==
    /\ pc = "returned" /\ IsDocument /\ Len(FlowEdges) = 2
    /\ HasSourceAndTarget(1) /\ OutsideVocabulary(1) /\ Reported(InvalidHandle(1))
    /\ HasSourceAndTarget(2) /\ FlowEdges[2].source = FlowEdges[1].source
    /\ FlowEdges[2].sourceHandle = "true"
    /\ Cardinality(DefectsOf("invalid sourceHandle")) = 1

\* the nodes with an id and a type, by position
CollectedNodes ==
    {i \in DOMAIN FlowNodes :
        FlowNodes[i].isobj /\ Truthy(FlowNodes[i].id) /\ Truthy(FlowNodes[i].type)}

\* the edges that name the id as their source; whether one of them has both
\* a source and a target
EdgesFrom(id) == {e \in DOMAIN FlowEdges : FlowEdges[e].isobj /\ FlowEdges[e].source = id}
HasOutgoing(id) == \E e \in EdgesFrom(id) : HasSourceAndTarget(e)

NoOutgoingDefects(id) ==
    DefectsAbout("conditional node has no outgoing edges", id)
       \cup DefectsAbout("trigger node has no outgoing edges", id)

RepairedLast ==
    /\ trail # <<>>
    /\ LastStep.node = "validate_flow"
    /\ LastStep.reply = "document"

\* C34: when a repair reply holds an extractable document, flow becomes the
\* canonical text of that document of the reply and nothing else of the state
\* but validationRetries and phase changes, and the next step of the turn is
\* the validator run on the replacement (its exception leaves the turn, no
\* defect ends it in done with the replacement, defects are repaired again
\* within the budget and accepted beyond it), also when the repair was the
\* last one the budget allows.
C34_RepairDocumentReplacesAndIsValidated ==
    [][/\ (pc = "validate_flow" /\ trail' # trail /\ StepReply = "document")
            => /\ \E i \in DOMAIN StepResponse.blocks :
                     /\ StepResponse.blocks[i].ok
                     /\ st'.flow_json = json_dumps(StepResponse.blocks[i].val)
               /\ st'.flow_json = _extract_flow_json(StepResponse).flow
               /\ st' = [st EXCEPT !.flow_json = st'.flow_json,
                                   !.validation_retries = @ + 1,
                                   !.phase = "validating"]
               /\ pc' = "validate_flow"
       /\ (pc = "validate_flow" /\ trail' # trail /\ RepairedLast)
            => LET res == validate_flow(st.flow_json) IN
               /\ st.flow_json = _extract_flow_json(LastStep.response).flow
               /\ res.raised # "none" => pc' = "raised" /\ exc' = res.raised
               /\ (res.raised = "none" /\ res.errors = <<>>)
                     => pc' = "END" /\ st'.phase = "done" /\ st'.flow_json = st.flow_json
               /\ (res.raised = "none" /\ res.errors # <<>>)
                     => IF st.validation_retries >= MAX_VALIDATION_RETRIES
                        THEN /\ pc' = "END" /\ st'.phase = "done" /\ calls' = calls
                             /\ st'.flow_json = st.flow_json
                        ELSE calls' = calls + 1]_vars

\* the last repair of the budget brought a document with defects; it was
\* validated and the turn ended in done with it
C34_Witness ==
    /\ pc = "END"
    /\ Len(trail) >= 2
    /\ LET repair == trail[Len(trail) - 1] IN
         /\ repair.node = "validate_flow" /\ repair.reply = "document"
         /\ st.flow_json = _extract_flow_json(repair.response).flow
    /\ LastStep.node = "validate_flow" /\ LastStep.reply = "no call"
    /\ st.validation_retries = MAX_VALIDATION_RETRIES
    /\ Defects(st.flow_json) # <<>>
    /\ st.phase = "done"

\* C35: validate_flow is total: called with any text, it returns a defect
\* list and never raises, also for documents whose nodes or edges hold
\* elements that are not objects or whose id, source or target is not a
\* string.
C35_ValidateFlowTotal ==
    (frontEnd = "validator" /\ pc # "called")
        => /\ pc = "returned"
           /\ exc = "none"
           /\ st.raised = "none"

(***************************************************************************)
(* run_agent called with a state its caller made: AgentState takes any of  *)
(* the five phases, with or without a flow.                                *)
(***************************************************************************)

Phases == {"chat", "gathering", "generating", "validating", "done"}

StartStates ==
    {[EmptySession EXCEPT !.phase = phase, !.flow_json = flow_json] :
        phase \in Phases, flow_json \in {NoFlow, json_dumps(DocNoPosition)}}

InitPhases ==
    /\ frontEnd = "run_agent"
    /\ session \in StartStates
    /\ msgCache = NoCache
    /\ st = EmptySession
    /\ pc = "idle"
    /\ exc = "none"
    /\ calls = 0
    /\ trail = <<>>
    /\ pre = View
    /\ last = "init"
    /\ turns = 0

NextPhases ==
    \/ RunAgentBegin
    \/ ChatNode \/ GenerateFlowNode \/ ValidateFlowNode
    \/ RunAgentEnd
    \/ Propagate

SpecPhases == InitPhases /\ [][NextPhases]_vars

\* C36: every turn ends with phase chat or done: whatever phase the turn
\* starts in and whatever the completion service replies, the phase of the
\* state agent.invoke returns, which the caller stores, is never gathering,
\* generating or validating.
C36_TurnEndsInChatOrDone ==
    /\ TurnEnded => st.phase \in {"chat", "done"}
    /\ (pc = "idle" /\ last = "turn") => session.phase \in {"chat", "done"}

\* a turn that started in validating without a flow and ended in chat
C36_Witness ==
    /\ pc = "idle" /\ last = "turn"
    /\ pre.phase = "validating" /\ pre.flow_json = NoFlow
    /\ Ran("validate_flow")
    /\ session.phase = "chat"

(***************************************************************************)
(* The flow a session holds, over turns and resets.                        *)
(***************************************************************************)

\* the documents the extractor accepted of the replies heard in the turn
AcceptedInTurn ==
    {_extract_flow_json(trail[k].response).flow :
        k \in {j \in DOMAIN trail : trail[j].reply = "document"}}

\* the step is a reset of the session
ResetStep == last' = "reset" /\ pc = "idle" /\ pc' = "idle"

\* C37: in every state reachable from the empty session by turns and resets,
\* phase done implies that a flow is held, in the session and in the graph
\* state of a running turn; and a flow once held is only ever replaced by a
\* document the extractor accepted of a reply of the turn, never removed,
\* until a reset.
C37_DoneHoldsFlowAndFlowStays ==
    /\ [](/\ (session.phase = "done" => session.flow_json # NoFlow)
          /\ ((pc \notin {"idle", "raised"} /\ st.phase = "done") => st.flow_json # NoFlow))
    /\ [][/\ ((session.flow_json # NoFlow /\ ~ResetStep)
                => /\ session'.flow_json # NoFlow
                   /\ session'.flow_json \in {session.flow_json} \cup AcceptedInTurn)
           /\ ((st.flow_json # NoFlow /\ pc \notin {"idle", "raised"})
                => /\ st'.flow_json # NoFlow
                   /\ st'.flow_json \in {st.flow_json} \cup AcceptedInTurn')]_vars

\* a session that held a flow ended a later turn in done with another one
C37_Witness ==
    /\ pc = "idle" /\ last = "turn"
    /\ pre.flow_json # NoFlow
    /\ session.flow_json # NoFlow
    /\ session.flow_json # pre.flow_json
    /\ session.flow_json \in AcceptedInTurn
    /\ session.phase = "done"

(***************************************************************************)
(* Two chat requests of the API on one session.  The handlers are plain    *)
(* functions, which the server runs in worker threads; a request can be    *)
(* overtaken wherever it waits: for the database (db.get_session, the      *)
(* updates) and for the completion service.  The variables are used as     *)
(* follows: session is the sessions row, msgCache the session's entry in   *)
(* _msg_cache (one list object, which both requests append to), and pre    *)
(* (the row a request read), st, pc, exc, calls, trail and last hold one   *)
(* value per request; turns counts the requests begun.                     *)
(***************************************************************************)

Requests == {"r1", "r2"}

\* req.message of each request
MessageOf(r) ==
    HumanMessage(Content(IF r = "r1" THEN "make me a bot" ELSE "add a help command", <<>>))

InitOverlap ==
    /\ frontEnd = "api"
    /\ session = EmptySession
    /\ msgCache = NoCache
    /\ st = [r \in Requests |-> EmptySession]
    /\ pc = [r \in Requests |-> "idle"]
    /\ exc = [r \in Requests |-> "none"]
    /\ calls = [r \in Requests |-> 0]
    /\ trail = [r \in Requests |-> <<>>]
    /\ pre = [r \in Requests |-> EmptySession]
    /\ last = [r \in Requests |-> "init"]
    /\ turns = 0

\* api.chat: s = _get_session_or_404(session_id, user_id)
OverlapRead(r) ==
    /\ pc[r] = "idle" /\ last[r] = "init"
    /\ pre' = [pre EXCEPT ![r] = session]
    /\ pc' = [pc EXCEPT ![r] = "read"]
    /\ turns' = turns + 1
    /\ UNCHANGED <<frontEnd, session, msgCache, st, exc, calls, trail, last>>

\* api.chat: _load_messages, messages.append, the input state of agent.invoke
OverlapLoad(r) ==
    /\ pc[r] = "read"
    /\ msgCache' = Cached(Append(_load_messages(msgCache, pre[r]), MessageOf(r)))
    /\ st' = [st EXCEPT ![r] = InputState(msgCache'.msgs, pre[r].requirements,
                                          pre[r].flow_json, pre[r].phase,
                                          pre[r].turn_count)]
    /\ pc' = [pc EXCEPT ![r] = "chat"]
    /\ UNCHANGED <<frontEnd, session, exc, calls, trail, pre, last, turns>>

\* one node of agent.invoke
OverlapNode(r) ==
    /\ pc[r] \in {"chat", "generate_flow", "validate_flow"}
    /\ \E response \in PairResponses :
         LET out == NodeOut(pc[r], st[r], response)
             next == RouteAfter(pc[r], out.state)
         IN /\ st' = [st EXCEPT ![r] = out.state]
            /\ trail' = [trail EXCEPT ![r] =
                           Append(@, [node |-> pc[r], reply |-> Brought(out, response),
                                      response |-> Heard(out, response)])]
            /\ exc' = [exc EXCEPT ![r] = out.raised]
            /\ pc' = [pc EXCEPT ![r] = IF out.raised # "none" THEN "raised" ELSE next]
            /\ calls' = [calls EXCEPT ![r] = @ + (IF out.called THEN 1 ELSE 0)]
    /\ UNCHANGED <<frontEnd, session, msgCache, pre, last, turns>>

\* api.chat after agent.invoke: _save_messages, db.update_session; the
\* defaults of result.get are the values of the row the request read
OverlapEnd(r) ==
    /\ pc[r] = "END"
    /\ msgCache' = Cached(st[r].messages)
    /\ session' =
         update_session(
            update_session(session, NotGiven, NotGiven, NotGiven, NotGiven,
                           Given(_serialize_messages(st[r].messages))),
            Given(st[r].phase), Given(st[r].turn_count), Given(st[r].requirements),
            OptFlow(st[r].flow_json), NotGiven)
    /\ pc' = [pc EXCEPT ![r] = "idle"]
    /\ last' = [last EXCEPT ![r] = "turn"]
    /\ UNCHANGED <<frontEnd, st, exc, calls, trail, pre, turns>>

\* the exception leaves api.chat
OverlapPropagate(r) ==
    /\ pc[r] = "raised"
    /\ pc' = [pc EXCEPT ![r] = "idle"]
    /\ last' = [last EXCEPT ![r] = "failed"]
    /\ UNCHANGED <<frontEnd, session, msgCache, st, exc, calls, trail, pre, turns>>

NextOverlap ==
    \E r \in Requests :
       \/ OverlapRead(r) \/ OverlapLoad(r) \/ OverlapNode(r)
       \/ OverlapEnd(r) \/ OverlapPropagate(r)

SpecOverlap == InitOverlap /\ [][NextOverlap]_vars

\* the places of a message in the stored history
PlacesOf(message) == {k \in DOMAIN session.messages : session.messages[k] = message}

\* C38: when two chat requests on the same session overlap, in any
\* interleaving, no turn is lost: after both have completed, the stored
\* turn_count has grown by 2 and the stored history holds each of the two
\* user messages exactly once, each followed by an assistant reply.
C38_NoTurnLost ==
    (\A r \in Requests : last[r] = "turn")
        => /\ session.turn_count = 2
           /\ \A r \in Requests :
                 /\ Cardinality(PlacesOf(MessageOf(r))) = 1
                 /\ \A k \in PlacesOf(MessageOf(r)) :
                       /\ k + 1 \in DOMAIN session.messages
                       /\ session.messages[k + 1].role = "assistant"

(***************************************************************************)
(* The session endpoints of the API called by two users on one session,    *)
(* which the first of them created.  Every handler but delete_session      *)
(* starts with _get_session_or_404, whose query names the caller.  The     *)
(* variables are used as follows: session is [exists, row] (the sessions   *)
(* row, while it exists), msgCache the session's entry in _msg_cache, pre  *)
(* the flows saved (the flows table), st, pc, exc, calls and trail the     *)
(* chat request in progress (one at a time), last the last response        *)
(* returned [op, user, status, body] with body <<>> when it carries no     *)
(* value of the session, and turns the requests made.                      *)
(***************************************************************************)

Users == {"owner", "other"}
Owner == "owner"
MaxRequests == 3

Row(row) == [exists |-> TRUE, row |-> row]
NoRow == [exists |-> FALSE, row |-> EmptySession]

Response(op, user, status, body) == [op |-> op, user |-> user, status |-> status, body |-> body]
NotFound(op, user) == Response(op, user, 404, <<>>)

\* database.get_session: the row, if it exists and belongs to the user
get_session(user) == session.exists /\ user = Owner

InitOwner ==
    /\ frontEnd = "api"
    /\ session = Row(EmptySession)
    /\ msgCache = NoCache
    /\ st = EmptySession
    /\ pc = "idle"
    /\ exc = "none"
    /\ calls = 0
    /\ trail = <<>>
    /\ pre = <<>>
    /\ last = Response("create", Owner, 200, <<>>)
    /\ turns = 0

\* a request arrives; the handler answers it in this step
Answer(response) ==
    /\ turns < MaxRequests
    /\ turns' = turns + 1
    /\ last' = response

\* api.get_session
GetSession(user) ==
    /\ Answer(IF get_session(user)
              THEN Response("get", user, 200,
                            <<[phase |-> session.row.phase,
                               turn_count |-> session.row.turn_count,
                               has_flow |-> session.row.flow_json # NoFlow,
                               requirements |-> session.row.requirements]>>)
              ELSE NotFound("get", user))
    /\ UNCHANGED <<frontEnd, session, msgCache, st, pc, exc, calls, trail, pre>>

\* api.get_session_flow
GetSessionFlow(user) ==
    /\ Answer(IF get_session(user) /\ session.row.flow_json # NoFlow
              THEN Response("flow", user, 200, <<[flow_json |-> session.row.flow_json]>>)
              ELSE NotFound("flow", user))
    /\ UNCHANGED <<frontEnd, session, msgCache, st, pc, exc, calls, trail, pre>>

\* api.save_session_flow
SaveSessionFlow(user) ==
    /\ Answer(IF get_session(user) /\ session.row.flow_json # NoFlow
              THEN Response("save", user, 200, <<[flow_json |-> session.row.flow_json]>>)
              ELSE NotFound("save", user))
    /\ pre' = IF get_session(user) /\ session.row.flow_json # NoFlow
              THEN Append(pre, [user_id |-> user, flow_json |-> session.row.flow_json])
              ELSE pre
    /\ UNCHANGED <<frontEnd, session, msgCache, st, pc, exc, calls, trail>>

\* api.get_history: _load_messages fills the cache
GetHistory(user) ==
    /\ Answer(IF get_session(user)
              THEN Response("history", user, 200,
                            <<[messages |-> _serialize_messages(
                                               _load_messages(msgCache, session.row))]>>)
              ELSE NotFound("history", user))
    /\ msgCache' = IF get_session(user)
                   THEN Cached(_load_messages(msgCache, session.row)) ELSE msgCache
    /\ UNCHANGED <<frontEnd, session, st, pc, exc, calls, trail, pre>>

\* api.reset_session
ResetSession(user) ==
    /\ Answer(IF get_session(user) THEN Response("reset", user, 200, <<>>)
              ELSE NotFound("reset", user))
    /\ IF get_session(user)
       THEN /\ session' = Row(update_session(session.row, Given("chat"), Given(0),
                                             Given(<<>>), NotGiven, Given(<<>>)))
            /\ msgCache' = NoCache
       ELSE UNCHANGED <<session, msgCache>>
    /\ UNCHANGED <<frontEnd, st, pc, exc, calls, trail, pre>>

\* api.delete_session: database.delete_session names the caller,
\* _msg_cache.pop does not
DeleteSession(user) ==
    /\ Answer(Response("delete", user, 200, <<>>))
    /\ session' = IF get_session(user) THEN NoRow ELSE session
    /\ msgCache' = NoCache
    /\ UNCHANGED <<frontEnd, st, pc, exc, calls, trail, pre>>

\* api.chat up to agent.invoke, or its 404
OwnerChatBegin(user) ==
    /\ pc = "idle"
    /\ IF get_session(user)
       THEN /\ turns < MaxRequests
            /\ turns' = turns + 1
            /\ msgCache' = Cached(Append(_load_messages(msgCache, session.row), UserMessage))
            /\ st' = InputState(msgCache'.msgs, session.row.requirements,
                                session.row.flow_json, session.row.phase,
                                session.row.turn_count)
            /\ pc' = "chat"
            /\ exc' = "none"
            /\ calls' = 0
            /\ trail' = <<>>
            /\ UNCHANGED last
       ELSE /\ Answer(NotFound("chat", user))
            /\ UNCHANGED <<msgCache, st, pc, exc, calls, trail>>
    /\ UNCHANGED <<frontEnd, session, pre>>

\* one node of agent.invoke
OwnerChatNode ==
    /\ pc \in {"chat", "generate_flow", "validate_flow"}
    /\ \E response \in PairResponses :
         LET out == NodeOut(pc, st, response)
         IN RunNode(pc, out, response, RouteAfter(pc, out.state))

\* api.chat after agent.invoke: _save_messages, db.update_session (an UPDATE
\* that changes nothing when the row is gone), the response
OwnerChatEnd ==
    /\ pc = "END"
    /\ msgCache' = Cached(st.messages)
    /\ session' =
         IF session.exists
         THEN Row(update_session(
                    update_session(session.row, NotGiven, NotGiven, NotGiven, NotGiven,
                                   Given(_serialize_messages(st.messages))),
                    Given(st.phase), Given(st.turn_count), Given(st.requirements),
                    OptFlow(st.flow_json), NotGiven))
         ELSE session
    /\ pc' = "idle"
    /\ last' = Response("chat", Owner, 200,
                        <<[phase |-> st.phase, flow_json |-> st.flow_json,
                           requirements |-> st.requirements]>>)
    /\ UNCHANGED <<frontEnd, st, exc, calls, trail, pre, turns>>

\* the exception leaves api.chat: status 500
OwnerChatPropagate ==
    /\ pc = "raised"
    /\ pc' = "idle"
    /\ last' = Response("chat", Owner, 500, <<>>)
    /\ UNCHANGED <<frontEnd, session, msgCache, st, exc, calls, trail, pre, turns>>

NextOwner ==
    \/ \E user \in Users :
          \/ GetSession(user) \/ GetSessionFlow(user) \/ SaveSessionFlow(user)
          \/ GetHistory(user) \/ ResetSession(user) \/ DeleteSession(user)
          \/ OwnerChatBegin(user)
    \/ OwnerChatNode \/ OwnerChatEnd \/ OwnerChatPropagate

SpecOwner == InitOwner /\ [][NextOwner]_vars

\* what the owner observes of the session through get, flow and history
OwnerView ==
    IF session.exists
    THEN <<[phase |-> session.row.phase,
            turn_count |-> session.row.turn_count,
            requirements |-> session.row.requirements,
            flow_json |-> session.row.flow_json,
            messages |-> _serialize_messages(_load_messages(msgCache, session.row))]>>
    ELSE <<>>

\* C39: a request naming the session by a user who does not own it returns
\* none of the session's data and leaves what the owner observes of it
\* (phase, turn count, requirements, flow and message history) as it was,
\* for every operation and after every sequence of operations.
C39_SessionIsolation ==
    [][(turns' = turns + 1 /\ last'.user # Owner /\ pc' = pc)
          => /\ last'.body = <<>>
             /\ last'.op # "delete" => last'.status = 404
             /\ OwnerView' = OwnerView
             /\ pre' = pre]_vars

====
